---- MODULE Spec2Model ----
(***************************************************************************)
(* snubb: multichain ERC20 approval scanner.                               *)
(*                                                                         *)
(* The module models the multi-chain CLI (src/unnamed/part_000; the same   *)
(* main/scanChain code is the first program of src/index.js):              *)
(*   - BigInt amounts as little-endian sequences of base-2^16 limbs, so    *)
(*     that 2^256-1 and the "effectively unlimited" threshold are the real *)
(*     numbers of the program;                                             *)
(*   - scanChain's receive loop and its fold of Approval/Transfer logs;    *)
(*   - main's orchestration (height lookup, concurrent scanners, the       *)
(*     progress display, Promise.all) and its report builder and sort.     *)
(***************************************************************************)
EXTENDS Integers, Sequences, FiniteSets, TLC

(***************************************************************************)
(* BigInt arithmetic.  A BigInt >= 0 is a sequence of limbs, least         *)
(* significant first, without a most significant zero limb; 0n is << >>.   *)
(***************************************************************************)
Base == 2 ^ 16

Max2(a, b) == IF a >= b THEN a ELSE b

Limb(a, i) == IF i <= Len(a) THEN a[i] ELSE 0

RECURSIVE BigNorm(_)
BigNorm(a) ==
  IF a = << >> THEN << >>
  ELSE IF a[Len(a)] = 0 THEN BigNorm(SubSeq(a, 1, Len(a) - 1))
  ELSE a

BigZero == << >>

BigFromNat(n) == IF n = 0 THEN << >> ELSE << n >>

RECURSIVE AddLimbs(_, _, _, _)
AddLimbs(a, b, i, carry) ==
  IF i > Max2(Len(a), Len(b))
  THEN (IF carry = 0 THEN << >> ELSE << carry >>)
  ELSE LET s == Limb(a, i) + Limb(b, i) + carry
       IN  << s % Base >> \o AddLimbs(a, b, i + 1, s \div Base)

BigAdd(a, b) == AddLimbs(a, b, 1, 0)

RECURSIVE SubLimbs(_, _, _, _)
SubLimbs(a, b, i, borrow) ==
  IF i > Len(a) THEN << >>
  ELSE LET d == a[i] - Limb(b, i) - borrow
       IN  IF d < 0
           THEN << d + Base >> \o SubLimbs(a, b, i + 1, 1)
           ELSE << d >> \o SubLimbs(a, b, i + 1, 0)

RECURSIVE GtFrom(_, _, _)
GtFrom(a, b, i) ==
  IF i = 0 THEN FALSE
  ELSE IF a[i] # b[i] THEN a[i] > b[i]
  ELSE GtFrom(a, b, i - 1)

\* a > b
BigGT(a, b) ==
  IF Len(a) # Len(b) THEN Len(a) > Len(b) ELSE GtFrom(a, b, Len(a))

\* a - b for a >= b (the program only subtracts after comparing)
BigSub(a, b) == BigNorm(SubLimbs(a, b, 1, 0))

RECURSIVE DivRem(_, _, _)
\* remainder carried into limb i by the long division of a by the small d
DivRem(a, d, i) ==
  IF i > Len(a) THEN 0 ELSE (DivRem(a, d, i + 1) * Base + a[i]) % d

\* BigInt division a / d (truncating) by a small divisor d
BigDivSmall(a, d) ==
  BigNorm([i \in 1..Len(a) |-> (DivRem(a, d, i + 1) * Base + a[i]) \div d])

\* BigInt(2) ** BigInt(n)
BigPow2(n) == [i \in 1..(n \div 16) |-> 0] \o << 2 ^ (n % 16) >>

\* BigInt("0xffff...ffff"): 64 hex digits f, i.e. 16 limbs 0xffff
HexAllF == [i \in 1..16 |-> 65535]

(***************************************************************************)
(* isEffectivelyUnlimited and the report builder's unlimited test.         *)
(***************************************************************************)
MAX_UINT256 == HexAllF

LARGE_THRESHOLD == BigSub(MAX_UINT256, BigDivSmall(MAX_UINT256, 1000))

isEffectivelyUnlimited_GE(amount) ==
  BigGT(amount, LARGE_THRESHOLD) \/ amount = LARGE_THRESHOLD

isEffectivelyUnlimited(amount) == BigGT(amount, LARGE_THRESHOLD)

\* the condition of main's "Check for unlimited approval (common values)"
IsUnlimitedApproval(approvedAmount) ==
  \/ approvedAmount = BigSub(BigPow2(256), BigFromNat(1))
  \/ approvedAmount = HexAllF
  \/ isEffectivelyUnlimited(approvedAmount)

(***************************************************************************)
(* The classification as a function of its input: amounts around 0, around *)
(* the threshold and just below 2^256.                                     *)
(***************************************************************************)
VARIABLES uAnchor, uOffset, uAmount, uResult

unlVars == << uAnchor, uOffset, uAmount, uResult >>

\* the scanner and main (described with the actions below)
VARIABLES data, CHAIN_IDS, pc, initIndex, chainStats, scanner,
          uiUpdateInterval, approvalsList, exitCode, history

mainVars == << data, CHAIN_IDS, pc, initIndex, chainStats, scanner,
               uiUpdateInterval, approvalsList, exitCode, history >>

\* two batches folded one after the other, and folded as one batch:
\*   cStart   the events folded before them
\*   cFirst, cSecond   the events of the two batches
\*   cSeq, cCat   the fold state after the two batches and after their
\*                concatenation, NotFolded before
VARIABLES cStart, cFirst, cSecond, cSeq, cCat

catVars == << cStart, cFirst, cSecond, cSeq, cCat >>

\* the start of the program, before main is called:
\*   options      what the command line gives: address ("none" when absent),
\*                listChains, and chains as [many, ids]: whether it is the
\*                keyword many-networks, and what parseInt makes of its
\*                comma-separated parts (NaN is NotANumber)
\*   networkData  the content of networkCache.json, << >> when it is missing
\*   startPc      "listChains", "address", "chains", "fallback", then "main"
\*                (main is called) or "exited"
\*   requestIndex, startChainIds, startTarget   the loop over the requested
\*                ids, CHAIN_IDS and TARGET_ADDRESS as they are built
\*   startExit    the code given to process.exit, -1 without an exit
VARIABLES options, networkData, startPc, requestIndex, startChainIds,
          startTarget, startExit

startVars == << options, networkData, startPc, requestIndex, startChainIds,
                startTarget, startExit >>

\* the sort of approvalsList on its own:
\*   sortInput    approvalsList as results.forEach leaves it
\*   sortOutput   [sorted, list]: approvalsList after approvalsList.sort
VARIABLES sortInput, sortOutput

sortVars == << sortInput, sortOutput >>

\* scanChain's fold log by log:
\*   fState   approvals and transfersUsingApprovals
\*   fPrev    the two maps before the last log was folded
\*   fLog     the last log folded, NoLog before the first
\*   fTxs     res.data.transactions of the batch that carried the log
\*   fSteps   the logs folded so far
\*   fTotal   per token, the sum of the amounts of the Transfer logs with
\*            from = target folded so far (not program state)
VARIABLES fState, fPrev, fLog, fTxs, fSteps, fTotal

logVars == << fState, fPrev, fLog, fTxs, fSteps, fTotal >>

\* scanChain fed with a stream fixed in advance:
\*   feed     per index of CHAIN_IDS, [opens, items, tail]: whether
\*            client.stream resolves, the outcomes of the calls of
\*            stream.recv() in their order, and what every later call gives:
\*            "null" (the stream ends) or "failing" (it throws each time)
\*   feedPos  per index of CHAIN_IDS, how many items were received
VARIABLES feed, feedPos

feedVars == << feed, feedPos >>

\* the interactive list:
\*   uiPc       "off", "start" (main is about to display the list), "prompt"
\*   selectedApprovalIndex, currentPage
\*   extraRpcs  the chains extraRpcs.js has a usable RPC URL for
\*   tokenMetadataCache   the cache keys << chainId, tokenAddress >> set
\*   background the calls of fetchTokenMetadataInBackground awaiting their
\*              Promise.all, in the order they were made: for each, per
\*              cache key, the fetches it started that have not returned
VARIABLES uiPc, selectedApprovalIndex, currentPage, extraRpcs,
          tokenMetadataCache, background

uiVars == << uiPc, selectedApprovalIndex, currentPage, extraRpcs,
             tokenMetadataCache, background >>

vars == << unlVars, mainVars, catVars, startVars, sortVars, logVars,
           feedVars, uiVars >>

\* how far around each anchor the inputs are drawn
UnlSpan == 20

\* MAX_UINT256 - MAX_UINT256/1000, written out in limbs (least significant first)
ThresholdLimbs ==
  << 14680, 51380, 48758, 6815, 56623, 1572, 38273, 35651,
     59244, 43515, 54001, 25165, 22544, 46137, 30408, 65470 >>

AnchorValue(anchor) ==
  CASE anchor = "zero" -> BigZero
    [] anchor = "threshold" -> ThresholdLimbs
    [] anchor = "max" -> [i \in 1..16 |-> 65535]

AmountAt(anchor, offset) ==
  IF offset >= 0
  THEN BigAdd(AnchorValue(anchor), BigFromNat(offset))
  ELSE BigSub(AnchorValue(anchor), BigFromNat(0 - offset))

UnlInputs ==
  ({"zero"} \X (0..UnlSpan))
    \cup ({"threshold"} \X ((0 - UnlSpan)..UnlSpan))
    \cup ({"max"} \X ((0 - UnlSpan)..0))

UnlIdle ==
  /\ uAnchor = "none"
  /\ uOffset = 0
  /\ uAmount = BigZero
  /\ uResult = "unset"

UnlInit ==
  \E in \in UnlInputs :
    /\ uAnchor = in[1]
    /\ uOffset = in[2]
    /\ uAmount = AmountAt(in[1], in[2])
    /\ uResult = "unset"

(***************************************************************************)
(* JavaScript objects used as maps: the keys are strings that are not      *)
(* array indices, so for-in visits them in insertion order.  A map is a    *)
(* sequence of << key, value >> pairs in the order the keys were created.  *)
(***************************************************************************)
Has(m, k) == \E i \in 1..Len(m) : m[i][1] = k

Get(m, k) == m[CHOOSE i \in 1..Len(m) : m[i][1] = k][2]

Put(m, k, v) ==
  IF Has(m, k)
  THEN [i \in 1..Len(m) |-> IF m[i][1] = k THEN << k, v >> ELSE m[i]]
  ELSE Append(m, << k, v >>)

Keys(m) == [i \in 1..Len(m) |-> m[i][1]]

EmptyMap == << >>

(***************************************************************************)
(* Addresses.  The backend delivers hex strings whose letters may be in    *)
(* upper case (checksummed); the program lower-cases every address before  *)
(* it compares it or uses it as a key.                                     *)
(***************************************************************************)
toLowerCase(s) ==
  CASE s = "0xTARGET" -> "0xtarget"
    [] s = "0xAA" -> "0xaa"
    [] s = "0xS1" -> "0xs1"
    [] OTHER -> s

\* the address under scan, normalised at start-up (TARGET_ADDRESS.toLowerCase())
TARGET_ADDRESS == toLowerCase("0xTARGET")

\* a.localeCompare(b) for lower-case hex strings of one length: the order of
\* their digits; -1, 0 or 1
AddressRank(a) ==
  CASE a = "0xaa" -> 1
    [] a = "0xbb" -> 2
    [] OTHER -> 0

Sign(n) == IF n < 0 THEN 0 - 1 ELSE IF n > 0 THEN 1 ELSE 0

localeCompare(a, b) == Sign(AddressRank(a) - AddressRank(b))

(***************************************************************************)
(* A raw log together with its decoded form:                               *)
(*   decoded   FALSE when decoder.decodeLogs returned null for it          *)
(*   topic0    "Approval", "Transfer", or "none" when topics are missing   *)
(*   address   the emitting contract, "none" when the field is missing     *)
(*   indexed0, indexed1   owner/spender or from/to; "none" when absent     *)
(*   amount    body[0].val, a BigInt; NoAmount when the body is empty      *)
(* A transaction is [hash, from, to]; to is "none" on contract creation.   *)
(* A batch is what stream.recv() resolves to: logs, transactions and       *)
(* nextBlock (0 when the response carries none).                           *)
(***************************************************************************)
NoTx == [hash |-> "none", from |-> "none", to |-> "none"]

\* res.data.transactions?.find((tx) => tx.hash === txHash)
FindTransaction(transactions, txHash) ==
  IF \E i \in 1..Len(transactions) : transactions[i].hash = txHash
  THEN LET first == CHOOSE i \in 1..Len(transactions) :
                      /\ transactions[i].hash = txHash
                      /\ \A j \in 1..(i - 1) : transactions[j].hash # txHash
       IN  transactions[first]
  ELSE NoTx

\* log.indexed[n]?.val.toString().toLowerCase() || ""
IndexedAddress(v) == IF v = "none" THEN "" ELSE toLowerCase(v)

\* an absent body[0] (no BigInt has a negative limb)
NoAmount == << 0 - 1 >>

\* log.body[0]?.val || BigInt(0)
BodyAmount(v) == IF v = NoAmount THEN BigZero ELSE v

\* transfersUsingApprovals[token][who] += amount, creating the entry at 0
AddTransfer(transfers, tokenAddress, who, amount) ==
  LET perToken == Get(transfers, tokenAddress)
      old == IF Has(perToken, who) THEN Get(perToken, who) ELSE BigZero
  IN  Put(transfers, tokenAddress, Put(perToken, who, BigAdd(old, amount)))

\* scanChain, "if (topic0 === APPROVAL_TOPIC)": the approval of the target
\* for (token, spender) is overwritten by the log being folded
FoldApproval_KeepFirst(st, log, tokenAddress) ==
  LET owner == IndexedAddress(log.indexed0)
      spender == IndexedAddress(log.indexed1)
      perToken == IF Has(st.approvals, tokenAddress)
                  THEN Get(st.approvals, tokenAddress) ELSE EmptyMap
      entry == [amount |-> BodyAmount(log.amount),
                blockNumber |-> log.blockNumber,
                txHash |-> log.transactionHash]
  IN  IF owner = toLowerCase(TARGET_ADDRESS) /\ ~Has(perToken, spender)
      THEN [st EXCEPT !.approvals =
              Put(st.approvals, tokenAddress, Put(perToken, spender, entry))]
      ELSE st

FoldApproval_AnyOwner(st, log, tokenAddress) ==
  LET spender == IndexedAddress(log.indexed1)
      perToken == IF Has(st.approvals, tokenAddress)
                  THEN Get(st.approvals, tokenAddress) ELSE EmptyMap
      entry == [amount |-> BodyAmount(log.amount),
                blockNumber |-> log.blockNumber,
                txHash |-> log.transactionHash]
  IN  [st EXCEPT !.approvals =
         Put(st.approvals, tokenAddress, Put(perToken, spender, entry))]

FoldApproval_ResetsTransfers(st, log, tokenAddress) ==
  LET owner == IndexedAddress(log.indexed0)
      spender == IndexedAddress(log.indexed1)
      perToken == IF Has(st.approvals, tokenAddress)
                  THEN Get(st.approvals, tokenAddress) ELSE EmptyMap
      entry == [amount |-> BodyAmount(log.amount),
                blockNumber |-> log.blockNumber,
                txHash |-> log.transactionHash]
      used == IF Has(st.transfersUsingApprovals, tokenAddress)
              THEN Get(st.transfersUsingApprovals, tokenAddress) ELSE EmptyMap
  IN  IF owner = toLowerCase(TARGET_ADDRESS)
      THEN [st EXCEPT
              !.approvals =
                Put(st.approvals, tokenAddress, Put(perToken, spender, entry)),
              !.transfersUsingApprovals =
                Put(st.transfersUsingApprovals, tokenAddress,
                    Put(used, spender, BigZero))]
      ELSE st

FoldApproval(st, log, tokenAddress) ==
  LET owner == IndexedAddress(log.indexed0)
      spender == IndexedAddress(log.indexed1)
      perToken == IF Has(st.approvals, tokenAddress)
                  THEN Get(st.approvals, tokenAddress) ELSE EmptyMap
      entry == [amount |-> BodyAmount(log.amount),
                blockNumber |-> log.blockNumber,
                txHash |-> log.transactionHash]
  IN  IF owner = toLowerCase(TARGET_ADDRESS)
      THEN [st EXCEPT !.approvals =
              Put(st.approvals, tokenAddress, Put(perToken, spender, entry))]
      ELSE st

FoldTransfer_NeedsApproval(st, log, tokenAddress, transaction) ==
  LET from == IndexedAddress(log.indexed0)
      amount == BodyAmount(log.amount)
      txSender == IF transaction.from = "none" THEN "null"
                  ELSE toLowerCase(transaction.from)
      withToken == IF Has(st.transfersUsingApprovals, tokenAddress)
                   THEN st.transfersUsingApprovals
                   ELSE Put(st.transfersUsingApprovals, tokenAddress, EmptyMap)
      isSpenderInitiated == txSender # "null" /\ txSender # toLowerCase(from)
      isOwnerInitiatedToSpender ==
        txSender = toLowerCase(from) /\ transaction.to # "none"
      txTo == toLowerCase(transaction.to)
  IN  IF from # toLowerCase(TARGET_ADDRESS) THEN st
      ELSE IF /\ isSpenderInitiated
              /\ Has(st.approvals, tokenAddress)
              /\ Has(Get(st.approvals, tokenAddress), txSender)
      THEN [st EXCEPT !.transfersUsingApprovals =
              AddTransfer(withToken, tokenAddress, txSender, amount)]
      ELSE IF /\ isOwnerInitiatedToSpender
              /\ Has(st.approvals, tokenAddress)
              /\ Has(Get(st.approvals, tokenAddress), txTo)
      THEN [st EXCEPT !.transfersUsingApprovals =
              AddTransfer(withToken, tokenAddress, txTo, amount)]
      ELSE [st EXCEPT !.transfersUsingApprovals = withToken]

FoldTransfer_NoApprovalCheck(st, log, tokenAddress, transaction) ==
  LET from == IndexedAddress(log.indexed0)
      amount == BodyAmount(log.amount)
      txSender == IF transaction.from = "none" THEN "null"
                  ELSE toLowerCase(transaction.from)
      withToken == IF Has(st.transfersUsingApprovals, tokenAddress)
                   THEN st.transfersUsingApprovals
                   ELSE Put(st.transfersUsingApprovals, tokenAddress, EmptyMap)
      isSpenderInitiated == txSender # "null" /\ txSender # toLowerCase(from)
      isOwnerInitiatedToSpender ==
        txSender = toLowerCase(from) /\ transaction.to # "none"
      txTo == toLowerCase(transaction.to)
  IN  IF from # toLowerCase(TARGET_ADDRESS) THEN st
      ELSE IF isSpenderInitiated
      THEN [st EXCEPT !.transfersUsingApprovals =
              AddTransfer(withToken, tokenAddress, txSender, amount)]
      ELSE IF isOwnerInitiatedToSpender
      THEN [st EXCEPT !.transfersUsingApprovals =
              AddTransfer(withToken, tokenAddress, txTo, amount)]
      ELSE [st EXCEPT !.transfersUsingApprovals = withToken]

FoldTransfer_AlsoRecipient(st, log, tokenAddress, transaction) ==
  LET from == IndexedAddress(log.indexed0)
      to == IndexedAddress(log.indexed1)
      amount == BodyAmount(log.amount)
      txSender == IF transaction.from = "none" THEN "null"
                  ELSE toLowerCase(transaction.from)
      withToken == IF Has(st.transfersUsingApprovals, tokenAddress)
                   THEN st.transfersUsingApprovals
                   ELSE Put(st.transfersUsingApprovals, tokenAddress, EmptyMap)
      isSpenderInitiated == txSender # "null" /\ txSender # toLowerCase(from)
      isOwnerInitiatedToSpender ==
        txSender = toLowerCase(from) /\ transaction.to # "none"
      txTo == toLowerCase(transaction.to)
  IN  IF from # toLowerCase(TARGET_ADDRESS) THEN st
      ELSE IF isSpenderInitiated
      THEN [st EXCEPT !.transfersUsingApprovals =
              AddTransfer(AddTransfer(withToken, tokenAddress, txSender, amount),
                          tokenAddress, to, amount)]
      ELSE IF /\ isOwnerInitiatedToSpender
              /\ Has(st.approvals, tokenAddress)
              /\ Has(Get(st.approvals, tokenAddress), txTo)
      THEN [st EXCEPT !.transfersUsingApprovals =
              AddTransfer(withToken, tokenAddress, txTo, amount)]
      ELSE [st EXCEPT !.transfersUsingApprovals = withToken]

\* scanChain, "else if (topic0 === TRANSFER_TOPIC)"
FoldTransfer(st, log, tokenAddress, transaction) ==
  LET from == IndexedAddress(log.indexed0)
      amount == BodyAmount(log.amount)
      \* transaction?.from?.toLowerCase() || null
      txSender == IF transaction.from = "none" THEN "null"
                  ELSE toLowerCase(transaction.from)
      withToken == IF Has(st.transfersUsingApprovals, tokenAddress)
                   THEN st.transfersUsingApprovals
                   ELSE Put(st.transfersUsingApprovals, tokenAddress, EmptyMap)
      isSpenderInitiated == txSender # "null" /\ txSender # toLowerCase(from)
      isOwnerInitiatedToSpender ==
        txSender = toLowerCase(from) /\ transaction.to # "none"
      txTo == toLowerCase(transaction.to)
  IN  IF from # toLowerCase(TARGET_ADDRESS) THEN st
      ELSE IF isSpenderInitiated
      THEN [st EXCEPT !.transfersUsingApprovals =
              AddTransfer(withToken, tokenAddress, txSender, amount)]
      ELSE IF /\ isOwnerInitiatedToSpender
              /\ Has(st.approvals, tokenAddress)
              /\ Has(Get(st.approvals, tokenAddress), txTo)
      THEN [st EXCEPT !.transfersUsingApprovals =
              AddTransfer(withToken, tokenAddress, txTo, amount)]
      ELSE [st EXCEPT !.transfersUsingApprovals = withToken]

\* the body of scanChain's "for (let i = 0; i < decodedLogs.length; i++)":
\* a log that is not decoded, has no topic0, or whose handling throws (no
\* address) is skipped
FoldLog(st, log, transactions) ==
  IF ~log.decoded \/ log.topic0 = "none" \/ log.address = "none" THEN st
  ELSE LET tokenAddress == toLowerCase(log.address)
           transaction == FindTransaction(transactions, log.transactionHash)
       IN  CASE log.topic0 = "Approval" -> FoldApproval(st, log, tokenAddress)
             [] log.topic0 = "Transfer" ->
                  FoldTransfer(st, log, tokenAddress, transaction)
             [] OTHER -> st

RECURSIVE FoldLogs(_, _, _, _)
FoldLogs(st, logs, transactions, i) ==
  IF i > Len(logs) THEN st
  ELSE FoldLogs(FoldLog(st, logs[i], transactions), logs, transactions, i + 1)

FoldBatch_ResetTransfers(st, batch) ==
  FoldLogs([st EXCEPT !.transfersUsingApprovals = EmptyMap],
           batch.logs, batch.transactions, 1)

\* one batch folded into [approvals, transfersUsingApprovals]
FoldBatch(st, batch) == FoldLogs(st, batch.logs, batch.transactions, 1)

EmptyFold == [approvals |-> EmptyMap, transfersUsingApprovals |-> EmptyMap]

(***************************************************************************)
(* The progress bar.  drawProgressBar(progress) is given progress as the   *)
(* quotient num/den of two non-negative numbers, as its callers compute    *)
(* it: x/0 is Infinity for x > 0 and NaN for x = 0.  The bar is kept as    *)
(* the lengths of its filled and empty parts.  String.prototype.repeat     *)
(* throws a RangeError for a negative or infinite count and takes NaN as   *)
(* 0.                                                                      *)
(***************************************************************************)
BarWidth == 40

Bar(filled, empty) == [filled |-> filled, empty |-> empty]

\* the result of a call that may throw
Returned(v) == [threw |-> FALSE, value |-> v]

Threw(v) == [threw |-> TRUE, value |-> v]

drawProgressBar(num, den) ==
  IF den = 0 /\ num = 0 THEN Returned(Bar(0, 0))
  ELSE IF den = 0 THEN Threw(Bar(0, 0))
  ELSE LET filledWidth == (BarWidth * num) \div den
           emptyWidth == BarWidth - filledWidth
       IN  IF emptyWidth < 0 THEN Threw(Bar(0, 0))
           ELSE Returned(Bar(Max2(1, filledWidth), emptyWidth))

(***************************************************************************)
(* chainStats[chainId].  lastBlockSeen is undefined until a batch carries  *)
(* a nextBlock; undefined is written 0 (the program only tests it for      *)
(* truthiness).  startTime and endTime are 0 until they are assigned, and  *)
(* 1 stands for the clock reading they are assigned.                       *)
(***************************************************************************)
InitialStats ==
  [height |-> 0, lastBlockSeen |-> 0, totalEvents |-> 0,
   startTime |-> 0, endTime |-> 0,
   progressBar |-> drawProgressBar(0, 1).value,
   approvalsCount |-> 0, isScanning |-> FALSE, isComplete |-> FALSE]

\* displayScanProgress for one chain: the new stats, or a throw
DisplayChain(stats) ==
  IF stats.isScanning
  THEN LET lbs == stats.lastBlockSeen
           \* lastBlockSeen ? Math.max(0.01, lastBlockSeen / height) : 0
           bar == IF lbs = 0 THEN drawProgressBar(0, 1)
                  ELSE IF stats.height # 0 /\ 100 * lbs < stats.height
                  THEN drawProgressBar(1, 100)
                  ELSE drawProgressBar(lbs, stats.height)
       IN  IF bar.threw THEN Threw(stats)
           ELSE Returned([stats EXCEPT !.progressBar = bar.value])
  ELSE IF stats.isComplete
  THEN Returned([stats EXCEPT !.progressBar = drawProgressBar(1, 1).value])
  ELSE Returned(stats)

RECURSIVE DisplayFrom(_, _, _)
DisplayFrom(ids, cs, k) ==
  IF k > Len(ids) THEN Returned(cs)
  ELSE IF ids[k] \notin DOMAIN cs THEN DisplayFrom(ids, cs, k + 1)
  ELSE LET one == DisplayChain(cs[ids[k]])
       IN  IF one.threw THEN Threw(cs)
           ELSE DisplayFrom(ids, [cs EXCEPT ![ids[k]] = one.value], k + 1)

\* displayScanProgress(): the chains are drawn in the order of CHAIN_IDS
displayScanProgress(ids, cs) == DisplayFrom(ids, cs, 1)

(***************************************************************************)
(* The report builder of main: one record per approval, the records with   *)
(* a remaining approval of 0 dropped, then the sort.                       *)
(***************************************************************************)
\* transfersUsingApprovals[tokenAddress]?.[spender] || BigInt(0)
TransferredAmount(transfers, tokenAddress, spender) ==
  IF Has(transfers, tokenAddress) /\ Has(Get(transfers, tokenAddress), spender)
  THEN Get(Get(transfers, tokenAddress), spender)
  ELSE BigZero

RemainingApproval_NoClamp(approvedAmount, transferredAmount) ==
  IF IsUnlimitedApproval(approvedAmount) THEN approvedAmount
  ELSE IF BigGT(transferredAmount, approvedAmount)
  THEN BigSub(transferredAmount, approvedAmount)
  ELSE BigSub(approvedAmount, transferredAmount)

RemainingApproval_NoUnlimited(approvedAmount, transferredAmount) ==
  IF BigGT(approvedAmount, transferredAmount)
  THEN BigSub(approvedAmount, transferredAmount)
  ELSE BigZero

\* main, "Calculate remaining approval"
RemainingApproval(approvedAmount, transferredAmount) ==
  IF IsUnlimitedApproval(approvedAmount) THEN approvedAmount
  ELSE IF BigGT(approvedAmount, transferredAmount)
  THEN BigSub(approvedAmount, transferredAmount)
  ELSE BigZero

\* the record main pushes for approvals[tokenAddress][spender]
ReconciledApproval(chainId, tokenAddress, spender, entry, transfers) ==
  LET transferredAmount == TransferredAmount(transfers, tokenAddress, spender)
  IN  [chainId |-> chainId,
       tokenAddress |-> tokenAddress,
       spender |-> spender,
       approvedAmount |-> entry.amount,
       transferredAmount |-> transferredAmount,
       remainingApproval |-> RemainingApproval(entry.amount, transferredAmount),
       isUnlimited |-> IsUnlimitedApproval(entry.amount),
       blockNumber |-> entry.blockNumber,
       txHash |-> entry.txHash]

RECURSIVE ApprovalRecordsFrom(_, _, _, _)
\* "for (const tokenAddress in approvals) for (const spender in ...)"
ApprovalRecordsFrom(chainId, approvals, transfers, t) ==
  IF t > Len(approvals) THEN << >>
  ELSE LET tokenAddress == approvals[t][1]
           perToken == approvals[t][2]
       IN  [j \in 1..Len(perToken) |->
              ReconciledApproval(chainId, tokenAddress, perToken[j][1],
                                 perToken[j][2], transfers)]
           \o ApprovalRecordsFrom(chainId, approvals, transfers, t + 1)

\* every approval of one chain's result, reconciled, before the filter
ChainRecords(chainId, result) ==
  ApprovalRecordsFrom(chainId, result.approvals,
                      result.transfersUsingApprovals, 1)

ShownInReport_All(r) == TRUE

\* "Only show non-zero remaining approvals": if (remainingApproval > 0)
ShownInReport(r) == BigGT(r.remainingApproval, BigZero)

RECURSIVE CombineFrom(_, _, _)
\* results.forEach(({approvals, transfersUsingApprovals}, index) => ...)
CombineFrom(ids, results, index) ==
  IF index > Len(results) THEN << >>
  ELSE SelectSeq(ChainRecords(ids[index], results[index]), ShownInReport)
       \o CombineFrom(ids, results, index + 1)

compareApprovals_TokenFirst(a, b) ==
  IF a.chainId # b.chainId THEN a.chainId - b.chainId
  ELSE IF a.tokenAddress # b.tokenAddress
  THEN localeCompare(a.tokenAddress, b.tokenAddress)
  ELSE IF a.isUnlimited /\ ~b.isUnlimited THEN 0 - 1
  ELSE IF ~a.isUnlimited /\ b.isUnlimited THEN 1
  ELSE IF ~a.isUnlimited /\ ~b.isUnlimited
          /\ BigGT(b.remainingApproval, a.remainingApproval) THEN 1
  ELSE IF ~a.isUnlimited /\ ~b.isUnlimited
          /\ BigGT(a.remainingApproval, b.remainingApproval) THEN 0 - 1
  ELSE 0

\* the comparator of approvalsList.sort: negative, zero or positive
compareApprovals(a, b) ==
  LET aIsUnlimitedToken ==
        a.isUnlimited \/ isEffectivelyUnlimited(a.remainingApproval)
      bIsUnlimitedToken ==
        b.isUnlimited \/ isEffectivelyUnlimited(b.remainingApproval)
  IN  IF a.chainId # b.chainId THEN a.chainId - b.chainId
      ELSE IF aIsUnlimitedToken /\ ~bIsUnlimitedToken THEN 0 - 1
      ELSE IF ~aIsUnlimitedToken /\ bIsUnlimitedToken THEN 1
      ELSE IF a.tokenAddress # b.tokenAddress
      THEN localeCompare(a.tokenAddress, b.tokenAddress)
      ELSE IF a.isUnlimited /\ ~b.isUnlimited THEN 0 - 1
      ELSE IF ~a.isUnlimited /\ b.isUnlimited THEN 1
      ELSE IF ~a.isUnlimited /\ ~b.isUnlimited
              /\ BigGT(b.remainingApproval, a.remainingApproval) THEN 1
      ELSE IF ~a.isUnlimited /\ ~b.isUnlimited
              /\ BigGT(a.remainingApproval, b.remainingApproval) THEN 0 - 1
      ELSE 0

\* x put behind every element that does not sort after it
InsertSorted(sorted, x) ==
  LET after == {k \in 1..Len(sorted) : compareApprovals(sorted[k], x) > 0}
      at == IF after = {} THEN Len(sorted) + 1
            ELSE CHOOSE k \in after : \A m \in after : k <= m
  IN  SubSeq(sorted, 1, at - 1) \o << x >> \o SubSeq(sorted, at, Len(sorted))

RECURSIVE SortFrom(_, _, _)
SortFrom(list, sorted, k) ==
  IF k > Len(list) THEN sorted
  ELSE SortFrom(list, InsertSorted(sorted, list[k]), k + 1)

\* Array.prototype.sort is stable, and the comparator is a consistent order
\* of the records main builds, so the result is the stable sort
SortApprovals(list) == SortFrom(list, << >>, 1)

\* approvalsList as main leaves it
BuildApprovalsList(ids, results) == SortApprovals(CombineFrom(ids, results, 1))

\* chainStats[chainId].approvalsCount = chainApprovalsCount, chain by chain
RECURSIVE CountFrom(_, _, _, _)
CountFrom(ids, results, cs, index) ==
  IF index > Len(results) THEN cs
  ELSE CountFrom(ids, results,
         [cs EXCEPT ![ids[index]].approvalsCount =
            Len(SelectSeq(ChainRecords(ids[index], results[index]),
                          ShownInReport))],
         index + 1)

(***************************************************************************)
(* What the indexing backend can deliver.  An event is a log with the      *)
(* transaction the backend joins to it (NoTx: none delivered).  The        *)
(* transaction hashes 0xh1, 0xh2, 0xh3 belong to the blocks 1, 2, 2.       *)
(***************************************************************************)
Amount0 == BigZero

Amount3 == BigFromNat(3)

Amount5 == BigFromNat(5)

Log(topic0, address, indexed0, indexed1, amount, blockNumber, hash) ==
  [decoded |-> TRUE, topic0 |-> topic0, address |-> address,
   indexed0 |-> indexed0, indexed1 |-> indexed1, amount |-> amount,
   blockNumber |-> blockNumber, transactionHash |-> hash]

Tx(hash, from, to) == [hash |-> hash, from |-> from, to |-> to]

Event(log, tx) == [log |-> log, tx |-> tx]

ApprovalEvent(address, spender, amount, blockNumber, hash) ==
  Event(Log("Approval", address, "0xTARGET", spender, amount, blockNumber, hash),
        NoTx)

TransferEvent(address, amount, blockNumber, hash, tx) ==
  Event(Log("Transfer", address, "0xTARGET", "0xother", amount, blockNumber,
            hash), tx)

\* the chain data of the runs that scan several chains at once
EventsSmall ==
  { ApprovalEvent("0xAA", "0xS1", Amount5, 1, "0xh1"),
    ApprovalEvent("0xbb", "0xs2", MAX_UINT256, 2, "0xh2") }

\* the chain data of the runs that scan one chain
EventsLarge ==
  { ApprovalEvent("0xAA", "0xS1", Amount5, 1, "0xh1"),
    ApprovalEvent("0xaa", "0xs1", Amount0, 2, "0xh2"),
    ApprovalEvent("0xAA", "0xS1", MAX_UINT256, 2, "0xh3"),
    ApprovalEvent("0xAA", "0xs2", Amount5, 1, "0xh1"),
    TransferEvent("0xAA", Amount3, 2, "0xh2", Tx("0xh2", "0xS1", "0xAA")),
    TransferEvent("0xAA", MAX_UINT256, 2, "0xh3", Tx("0xh3", "0xs1", "0xAA")),
    TransferEvent("0xAA", Amount3, 1, "0xh1", Tx("0xh1", "0xTARGET", "0xS1")),
    \* a transfer whose transaction the backend does not deliver
    TransferEvent("0xaa", Amount3, 2, "0xh2", NoTx),
    \* an approval given by somebody else, a transfer to the target
    Event(Log("Approval", "0xAA", "0xother", "0xS1", Amount5, 1, "0xh1"), NoTx),
    Event(Log("Transfer", "0xAA", "0xother", "0xTARGET", Amount5, 2, "0xh2"),
          Tx("0xh2", "0xother", "0xAA")),
    \* a log the decoder returns null for
    Event([Log("Transfer", "0xAA", "0xTARGET", "0xother", Amount5, 1, "0xh1")
             EXCEPT !.decoded = FALSE], NoTx) }

\* the chain data two batches are drawn from when folded side by side
EventsPair ==
  { ApprovalEvent("0xAA", "0xS1", Amount5, 1, "0xh1"),
    TransferEvent("0xAA", Amount3, 1, "0xh1", Tx("0xh1", "0xTARGET", "0xS1")),
    ApprovalEvent("0xAA", "0xS1", MAX_UINT256, 2, "0xh3"),
    ApprovalEvent("0xaa", "0xs1", Amount0, 2, "0xh2"),
    TransferEvent("0xAA", Amount3, 2, "0xh2", Tx("0xh2", "0xS1", "0xAA")),
    TransferEvent("0xaa", Amount3, 2, "0xh2", NoTx) }

Events(d) ==
  CASE d = "small" -> EventsSmall
    [] d = "pair" -> EventsPair
    [] OTHER -> EventsLarge

\* the values of res.nextBlock; 0: the response carries none
NextBlocks(d) == IF d = "small" THEN {5} ELSE {0, 5, 50}

\* the value client.getHeight() resolves to
Heights == {10}

\* the logs one scanChain is given, over all its batches
MaxEvents == 2

\* the same, in the runs that scan several chains at once
MaxEventsMulti == 1

EventBudget(d) == IF d = "small" THEN MaxEventsMulti ELSE MaxEvents

\* the batches one scanChain is given before its stream ends
MaxBatches == 2

EventSeqs(d, n) == UNION {[1..k -> Events(d)] : k \in 0..n}

\* the transactions of a batch: those joined to its logs, in the logs' order
RECURSIVE TransactionsOf(_)
TransactionsOf(events) ==
  IF events = << >> THEN << >>
  ELSE (IF Head(events).tx = NoTx THEN << >> ELSE << Head(events).tx >>)
       \o TransactionsOf(Tail(events))

MakeBatch(events, nextBlock) ==
  [logs |-> [k \in 1..Len(events) |-> events[k].log],
   transactions |-> TransactionsOf(events),
   nextBlock |-> nextBlock]

(***************************************************************************)
(* The program state.                                                      *)
(*   data        which chain data the backend serves in this run           *)
(*   CHAIN_IDS   the requested chains, in the order of the command line    *)
(*   pc          where main is: "init" (the height lookups), "scanning"    *)
(*               (awaiting Promise.all), "interactive", "exited"           *)
(*   initIndex   the next chain of the height-lookup loop                  *)
(*   chainStats  chainStats[chainId], created by the height-lookup loop    *)
(*   scanner     per index of CHAIN_IDS, the call scanChain(CHAIN_IDS[i])  *)
(*               and the promise main chains to it:                        *)
(*                 pc        "idle", "opening" (await client.stream),      *)
(*                           "streaming" (the receive loop), "caught" (in  *)
(*                           the catch of the loop), "returned", "threw",  *)
(*                           "settled"                                     *)
(*                 rejected  scanChain itself rejected                     *)
(*                 result    of the chained promise: "pending", "own"      *)
(*                           (what scanChain returned), "empty" (the value *)
(*                           of the catch handler), "rejected"             *)
(*   uiUpdateInterval  the 500 ms display timer is set                     *)
(*   approvalsList, exitCode (-1 while the process runs)                   *)
(*   history     per scanner, for each (token, spender), what the Approval *)
(*               logs of the target folded so far were: the amounts of the *)
(*               first and the last one folded, that of the one with the   *)
(*               highest                                                   *)
(*               block number (the later one on a tie), how many there     *)
(*               were, the block of the first, and whether they came in    *)
(*               non-decreasing block order.  It is not program state: the *)
(*               properties are stated with it.                            *)
(***************************************************************************)
Indices == 1..Len(CHAIN_IDS)

NewScanner ==
  [pc |-> "idle", approvals |-> EmptyMap, transfersUsingApprovals |-> EmptyMap,
   fromBlock |-> 0, batches |-> 0, events |-> 0,
   rejected |-> FALSE, result |-> "pending"]

\* is the log an Approval of the target that scanChain's fold is about
IsTargetApproval(log) ==
  /\ log.decoded
  /\ log.topic0 = "Approval"
  /\ log.address # "none"
  /\ IndexedAddress(log.indexed0) = TARGET_ADDRESS

RECURSIVE Observe(_, _, _)
Observe(h, logs, i) ==
  IF i > Len(logs) THEN h
  ELSE IF ~IsTargetApproval(logs[i]) THEN Observe(h, logs, i + 1)
  ELSE LET log == logs[i]
           key == << toLowerCase(log.address), IndexedAddress(log.indexed1) >>
           amount == BodyAmount(log.amount)
           new == IF Has(h, key)
                  THEN LET old == Get(h, key)
                       IN  [count |-> old.count + 1,
                            first |-> old.first,
                            last |-> amount,
                            lastBlock |-> log.blockNumber,
                            best |-> IF log.blockNumber >= old.bestBlock
                                     THEN amount ELSE old.best,
                            bestBlock |-> Max2(log.blockNumber, old.bestBlock),
                            firstBlock |-> old.firstBlock,
                            ordered |-> old.ordered
                                          /\ log.blockNumber >= old.lastBlock]
                  ELSE [count |-> 1, first |-> amount, last |-> amount,
                        lastBlock |-> log.blockNumber,
                        best |-> amount, bestBlock |-> log.blockNumber,
                        firstBlock |-> log.blockNumber, ordered |-> TRUE]
       IN  Observe(Put(h, key, new), logs, i + 1)

MainInit(d, idLists) ==
  /\ data = d
  /\ CHAIN_IDS \in idLists
  /\ pc = "init"
  /\ initIndex = 1
  /\ chainStats = << >>
  /\ scanner = [i \in 1..Len(CHAIN_IDS) |-> NewScanner]
  /\ uiUpdateInterval = FALSE
  /\ approvalsList = << >>
  /\ exitCode = 0 - 1
  /\ history = [i \in 1..Len(CHAIN_IDS) |-> EmptyMap]

MainIdle ==
  /\ data = "none"
  /\ CHAIN_IDS = << >>
  /\ pc = "off"
  /\ initIndex = 0
  /\ chainStats = << >>
  /\ scanner = << >>
  /\ uiUpdateInterval = FALSE
  /\ approvalsList = << >>
  /\ exitCode = 0 - 1
  /\ history = << >>

(***************************************************************************)
(* main: one round of "for (const chainId of CHAIN_IDS)" of the height     *)
(* lookup.  The stats of the chain are created (again, when the chain is   *)
(* listed twice); a failed lookup is reported and leaves height at 0.      *)
(***************************************************************************)
HeightLookup ==
  /\ pc = "init"
  /\ initIndex <= Len(CHAIN_IDS)
  /\ \E ok \in BOOLEAN, height \in Heights :
       chainStats' = (CHAIN_IDS[initIndex] :>
                        [InitialStats EXCEPT !.height = IF ok THEN height ELSE 0])
                     @@ chainStats
  /\ initIndex' = initIndex + 1
  /\ UNCHANGED << data, CHAIN_IDS, pc, scanner, uiUpdateInterval,
                  approvalsList, exitCode, history >>
  /\ UNCHANGED << unlVars, catVars, startVars, sortVars, logVars, feedVars, uiVars >>

RECURSIVE MarkScanning(_, _, _)
MarkScanning(ids, cs, k) ==
  IF k > Len(ids) THEN cs
  ELSE MarkScanning(ids,
         [cs EXCEPT ![ids[k]].isScanning = TRUE, ![ids[k]].startTime = 1],
         k + 1)

(***************************************************************************)
(* main: displayScanProgress() with no chain scanning (nothing is drawn),  *)
(* then CHAIN_IDS.map: every chain is marked scanning and its scanChain    *)
(* runs up to "await client.stream"; then setInterval and the await of     *)
(* Promise.all.                                                            *)
(***************************************************************************)
StartScans ==
  /\ pc = "init"
  /\ initIndex > Len(CHAIN_IDS)
  /\ chainStats' = MarkScanning(CHAIN_IDS, chainStats, 1)
  /\ scanner' = [i \in Indices |-> [scanner[i] EXCEPT !.pc = "opening"]]
  /\ uiUpdateInterval' = TRUE
  /\ pc' = "scanning"
  /\ UNCHANGED << data, CHAIN_IDS, initIndex, approvalsList, exitCode, history >>
  /\ UNCHANGED << unlVars, catVars, startVars, sortVars, logVars, feedVars, uiVars >>

\* scanChain: client.stream resolves, or it rejects (as does a throw of
\* HypersyncClient.new) and scanChain rejects with it
OpenStream(i) ==
  /\ pc = "scanning"
  /\ scanner[i].pc = "opening"
  /\ \E ok \in BOOLEAN :
       scanner' = [scanner EXCEPT
                     ![i].pc = IF ok THEN "streaming" ELSE "threw",
                     ![i].rejected = ~ok]
  /\ UNCHANGED << data, CHAIN_IDS, pc, initIndex, chainStats,
                  uiUpdateInterval, approvalsList, exitCode, history >>
  /\ UNCHANGED << unlVars, catVars, startVars, sortVars, logVars, feedVars, uiVars >>

\* scanChain's periodic redraw: Math.min(1, res.nextBlock / stats.height)
\* given to drawProgressBar (undefined/x and 0/0 are NaN, x/0 is Infinity)
ScanProgressBar(nextBlock, height) ==
  IF nextBlock = 0 THEN drawProgressBar(0, 0)
  ELSE IF height = 0 \/ nextBlock >= height THEN drawProgressBar(1, 1)
  ELSE drawProgressBar(nextBlock, height)

\* stats after one round of the receive loop that got a batch
StatsAfterBatch(stats, batch, redraw) ==
  LET seen == IF batch.nextBlock # 0
              THEN [stats EXCEPT !.lastBlockSeen = batch.nextBlock] ELSE stats
      counted == [seen EXCEPT !.totalEvents = @ + Len(batch.logs)]
      bar == ScanProgressBar(batch.nextBlock, stats.height)
  IN  IF redraw /\ ~bar.threw
      THEN [counted EXCEPT !.progressBar = bar.value]
      ELSE counted

(***************************************************************************)
(* scanChain: one round of "while (true)" in which stream.recv() resolves  *)
(* to a batch: lastBlockSeen and totalEvents are updated, the logs are     *)
(* folded, the query is moved to nextBlock, and the progress bar is redrawn*)
(* when more than 200 ms have passed since the last redraw.                *)
(***************************************************************************)
RecvBatch(i) ==
  /\ pc = "scanning"
  /\ scanner[i].pc = "streaming"
  /\ scanner[i].batches < MaxBatches
  /\ \E events \in EventSeqs(data, EventBudget(data) - scanner[i].events),
        nextBlock \in NextBlocks(data), redraw \in BOOLEAN :
       LET batch == MakeBatch(events, nextBlock)
           folded == FoldBatch([approvals |-> scanner[i].approvals,
                                transfersUsingApprovals |->
                                  scanner[i].transfersUsingApprovals], batch)
           chainId == CHAIN_IDS[i]
       IN  /\ scanner' = [scanner EXCEPT
                 ![i].approvals = folded.approvals,
                 ![i].transfersUsingApprovals = folded.transfersUsingApprovals,
                 ![i].fromBlock = IF nextBlock # 0 THEN nextBlock ELSE @,
                 ![i].batches = @ + 1,
                 ![i].events = @ + Len(events)]
           /\ chainStats' = [chainStats EXCEPT
                 ![chainId] = StatsAfterBatch(@, batch, redraw)]
           /\ history' = [history EXCEPT ![i] = Observe(@, batch.logs, 1)]
  /\ UNCHANGED << data, CHAIN_IDS, pc, initIndex, uiUpdateInterval,
                  approvalsList, exitCode >>
  /\ UNCHANGED << unlVars, catVars, startVars, sortVars, logVars, feedVars, uiVars >>

RecvNull_NoEndTime(i) ==
  /\ pc = "scanning"
  /\ scanner[i].pc = "streaming"
  /\ scanner' = [scanner EXCEPT ![i].pc = "returned"]
  /\ chainStats' = [chainStats EXCEPT
       ![CHAIN_IDS[i]].progressBar = drawProgressBar(1, 1).value]
  /\ UNCHANGED << data, CHAIN_IDS, pc, initIndex, uiUpdateInterval,
                  approvalsList, exitCode, history >>
  /\ UNCHANGED << unlVars, catVars, startVars, sortVars, logVars, feedVars,
                  uiVars >>

\* scanChain: stream.recv() resolves to null: the loop ends, endTime is set,
\* the bar is drawn full, and scanChain returns its two maps
RecvNull(i) ==
  /\ pc = "scanning"
  /\ scanner[i].pc = "streaming"
  /\ scanner' = [scanner EXCEPT ![i].pc = "returned"]
  /\ chainStats' = [chainStats EXCEPT
       ![CHAIN_IDS[i]].endTime = 1,
       ![CHAIN_IDS[i]].progressBar = drawProgressBar(1, 1).value]
  /\ UNCHANGED << data, CHAIN_IDS, pc, initIndex, uiUpdateInterval,
                  approvalsList, exitCode, history >>
  /\ UNCHANGED << unlVars, catVars, startVars, sortVars, logVars, feedVars, uiVars >>

MarkComplete_KeepsScanning(cs, chainId) ==
  [cs EXCEPT ![chainId].isComplete = TRUE]

\* the chain is marked complete, as both handlers do first
MarkComplete(cs, chainId) ==
  [cs EXCEPT ![chainId].isScanning = FALSE, ![chainId].isComplete = TRUE]

(***************************************************************************)
(* main: the .then handler of scanChain(chainId).  A throw of              *)
(* displayScanProgress rejects the promise .catch is chained to.           *)
(***************************************************************************)
ThenHandler(i) ==
  /\ pc = "scanning"
  /\ scanner[i].pc = "returned"
  /\ LET shown == displayScanProgress(CHAIN_IDS,
                                      MarkComplete(chainStats, CHAIN_IDS[i]))
     IN  /\ chainStats' = shown.value
         /\ scanner' = [scanner EXCEPT
               ![i].pc = IF shown.threw THEN "threw" ELSE "settled",
               ![i].result = IF shown.threw THEN "pending" ELSE "own"]
  /\ UNCHANGED << data, CHAIN_IDS, pc, initIndex, uiUpdateInterval,
                  approvalsList, exitCode, history >>
  /\ UNCHANGED << unlVars, catVars, startVars, sortVars, logVars, feedVars, uiVars >>

(***************************************************************************)
(* main: the .catch handler.  It returns the empty result, unless          *)
(* displayScanProgress throws: then the promise given to Promise.all       *)
(* rejects.                                                                *)
(***************************************************************************)
CatchHandler(i) ==
  /\ pc = "scanning"
  /\ scanner[i].pc = "threw"
  /\ LET shown == displayScanProgress(CHAIN_IDS,
                                      MarkComplete(chainStats, CHAIN_IDS[i]))
     IN  /\ chainStats' = shown.value
         /\ scanner' = [scanner EXCEPT
               ![i].pc = "settled",
               ![i].result = IF shown.threw THEN "rejected" ELSE "empty"]
  /\ UNCHANGED << data, CHAIN_IDS, pc, initIndex, uiUpdateInterval,
                  approvalsList, exitCode, history >>
  /\ UNCHANGED << unlVars, catVars, startVars, sortVars, logVars, feedVars, uiVars >>

(***************************************************************************)
(* main: the setInterval callback.  While a chain is scanning it calls     *)
(* displayScanProgress, and an exception thrown there is uncaught: the     *)
(* process ends with exit code 1.  Otherwise it clears the interval.       *)
(***************************************************************************)
UiTick ==
  /\ pc = "scanning"
  /\ uiUpdateInterval
  /\ LET anyScanning == \E c \in DOMAIN chainStats : chainStats[c].isScanning
         shown == displayScanProgress(CHAIN_IDS, chainStats)
     IN  IF ~anyScanning
         THEN /\ uiUpdateInterval' = FALSE
              /\ UNCHANGED << chainStats, pc, exitCode >>
         ELSE /\ chainStats' = shown.value
              /\ pc' = IF shown.threw THEN "exited" ELSE pc
              /\ exitCode' = IF shown.threw THEN 1 ELSE exitCode
              /\ UNCHANGED uiUpdateInterval
  /\ UNCHANGED << data, CHAIN_IDS, initIndex, scanner, approvalsList, history >>
  /\ UNCHANGED << unlVars, catVars, startVars, sortVars, logVars, feedVars, uiVars >>

\* the value scanner i's promise is fulfilled with
ResultOf(sc) ==
  IF sc.result = "own"
  THEN [approvals |-> sc.approvals,
        transfersUsingApprovals |-> sc.transfersUsingApprovals]
  ELSE EmptyFold

Results == [i \in Indices |-> ResultOf(scanner[i])]

(***************************************************************************)
(* main after "await Promise.all(scanPromises)" when every promise is      *)
(* fulfilled: the interval is cleared, approvalsList is built and sorted,  *)
(* the counts are stored; with no approval the process exits with code 0,  *)
(* otherwise the list is displayed and the prompt started.                 *)
(***************************************************************************)
BuildReport ==
  /\ pc = "scanning"
  /\ \A i \in Indices : scanner[i].result \in {"own", "empty"}
  /\ uiUpdateInterval' = FALSE
  /\ approvalsList' = BuildApprovalsList(CHAIN_IDS, Results)
  /\ chainStats' = CountFrom(CHAIN_IDS, Results, chainStats, 1)
  /\ pc' = IF approvalsList' = << >> THEN "exited" ELSE "interactive"
  /\ exitCode' = IF approvalsList' = << >> THEN 0 ELSE exitCode
  /\ UNCHANGED << data, CHAIN_IDS, initIndex, scanner, history >>
  /\ UNCHANGED << unlVars, catVars, startVars, sortVars, logVars, feedVars, uiVars >>

\* main's catch: Promise.all rejects with the first rejected promise
MainCatch ==
  /\ pc = "scanning"
  /\ \E i \in Indices : scanner[i].result = "rejected"
  /\ pc' = "exited"
  /\ exitCode' = 1
  /\ UNCHANGED << data, CHAIN_IDS, initIndex, chainStats, scanner,
                  uiUpdateInterval, approvalsList, history >>
  /\ UNCHANGED << unlVars, catVars, startVars, sortVars, logVars, feedVars, uiVars >>

Classify ==
  /\ uAnchor # "none"
  /\ uResult = "unset"
  /\ uResult' = IF IsUnlimitedApproval(uAmount) THEN "unlimited" ELSE "limited"
  /\ UNCHANGED << uAnchor, uOffset, uAmount >>
  /\ UNCHANGED << mainVars, catVars, startVars, sortVars, logVars, feedVars, uiVars >>

(***************************************************************************)
(* Two batches and their concatenation.  The batches do not overlap: no    *)
(* block has logs in both, and with it no transaction hash.                *)
(***************************************************************************)
\* the events a batch may hold when folded next to another one
MaxBatchLen == 2

NotFolded == [approvals |-> << "none" >>, transfersUsingApprovals |-> << >>]

BlocksOf(events) == {events[k].log.blockNumber : k \in 1..Len(events)}

CatIdle ==
  /\ cStart = << >>
  /\ cFirst = << >>
  /\ cSecond = << >>
  /\ cSeq = NotFolded
  /\ cCat = NotFolded

CatInit ==
  /\ cStart \in EventSeqs("pair", 1)
  /\ cFirst \in EventSeqs("pair", MaxBatchLen)
  /\ cSecond \in EventSeqs("pair", MaxBatchLen)
  /\ BlocksOf(cFirst) \cap BlocksOf(cSecond) = {}
  /\ cSeq = NotFolded
  /\ cCat = NotFolded

StartFold == FoldBatch(EmptyFold, MakeBatch(cStart, 5))

\* scanChain given the two batches by two receives
FoldInSequence ==
  /\ cSeq = NotFolded
  /\ cFirst # << >> \/ cSecond # << >> \/ cStart # << >>
  /\ cSeq' = FoldBatch(FoldBatch(StartFold, MakeBatch(cFirst, 5)),
                       MakeBatch(cSecond, 5))
  /\ UNCHANGED << cStart, cFirst, cSecond, cCat >>
  /\ UNCHANGED << unlVars, mainVars, startVars, sortVars, logVars, feedVars, uiVars >>

\* scanChain given the logs and transactions of both by one receive
FoldConcatenation ==
  /\ cCat = NotFolded
  /\ cFirst # << >> \/ cSecond # << >> \/ cStart # << >>
  /\ cCat' = FoldBatch(StartFold, MakeBatch(cFirst \o cSecond, 5))
  /\ UNCHANGED << cStart, cFirst, cSecond, cSeq >>
  /\ UNCHANGED << unlVars, mainVars, startVars, sortVars, logVars, feedVars, uiVars >>

(***************************************************************************)
(* The start of the program: the options, the address, the chain ids.      *)
(***************************************************************************)
\* the ids --chains may name, per run
MaxRequested == 2

\* parseInt of something that is no number
NotANumber == 0 - 1

NetworkCache ==
  << [chain_id |-> 1, name |-> "eth", ecosystem |-> "evm"],
     [chain_id |-> 2, name |-> "optimism", ecosystem |-> "evm"],
     [chain_id |-> 7, name |-> "solana", ecosystem |-> "svm"] >>

PREFERRED_CHAINS == << "eth", "optimism", "arbitrum" >>

RequestedIds ==
  UNION {[1..n -> {1, 2, 7, NotANumber}] : n \in 1..MaxRequested}

StartIdle ==
  /\ options = [address |-> "none", listChains |-> FALSE,
                chains |-> [many |-> FALSE, ids |-> << >>]]
  /\ networkData = << >>
  /\ startPc = "off"
  /\ requestIndex = 0
  /\ startChainIds = << >>
  /\ startTarget = "none"
  /\ startExit = 0 - 1

StartInit ==
  /\ options \in
       [address : {"none", "0xTARGET", "TARGET"},
        listChains : BOOLEAN,
        chains : {[many |-> TRUE, ids |-> << NotANumber >>]}
                   \cup [many : {FALSE}, ids : RequestedIds]]
  /\ networkData \in {<< >>, NetworkCache}
  /\ startPc = "listChains"
  /\ requestIndex = 1
  /\ startChainIds = << >>
  /\ startTarget = options.address
  /\ startExit = 0 - 1

\* "if (options.listChains)": the table is shown and the process exits
ListChains ==
  /\ startPc = "listChains"
  /\ startPc' = IF options.listChains THEN "exited" ELSE "address"
  /\ startExit' = IF options.listChains THEN 0 ELSE startExit
  /\ UNCHANGED << options, networkData, requestIndex, startChainIds,
                  startTarget >>
  /\ UNCHANGED << unlVars, mainVars, catVars, sortVars, logVars, feedVars, uiVars >>

\* "if (!TARGET_ADDRESS)": the usage is shown and the process exits
CheckAddress ==
  /\ startPc = "address"
  /\ startPc' = IF options.address = "none" THEN "exited" ELSE "chains"
  /\ startExit' = IF options.address = "none" THEN 0 ELSE startExit
  /\ UNCHANGED << options, networkData, requestIndex, startChainIds,
                  startTarget >>
  /\ UNCHANGED << unlVars, mainVars, catVars, sortVars, logVars, feedVars, uiVars >>

\* chainNameToData[chainName]: the last entry of networkData with the name
HasChainNamed(chainName) ==
  \E k \in 1..Len(networkData) : networkData[k].name = chainName

ChainNamed(chainName) ==
  networkData[CHOOSE k \in 1..Len(networkData) :
                /\ networkData[k].name = chainName
                /\ \A m \in (k + 1)..Len(networkData) :
                     networkData[m].name # chainName]

RECURSIVE PreferredIdsFrom(_)
PreferredIdsFrom(k) ==
  IF k > Len(PREFERRED_CHAINS) THEN << >>
  ELSE (IF HasChainNamed(PREFERRED_CHAINS[k])
        THEN << ChainNamed(PREFERRED_CHAINS[k]).chain_id >> ELSE << >>)
       \o PreferredIdsFrom(k + 1)

\* --chains many-networks: every preferred chain networkData knows
ResolveMany ==
  /\ startPc = "chains"
  /\ options.chains.many
  /\ startChainIds' = PreferredIdsFrom(1)
  /\ startPc' = "fallback"
  /\ UNCHANGED << options, networkData, requestIndex, startTarget, startExit >>
  /\ UNCHANGED << unlVars, mainVars, catVars, sortVars, logVars, feedVars, uiVars >>

\* networkData.find(chain => chain.chain_id === chainId && ecosystem "evm")
IsSupportedChain(chainId) ==
  \E k \in 1..Len(networkData) :
    networkData[k].chain_id = chainId /\ networkData[k].ecosystem = "evm"

\* one round of "for (const chainId of requestedChainIds)": the id is pushed,
\* or the process exits with code 1
ResolveRequested ==
  /\ startPc = "chains"
  /\ ~options.chains.many
  /\ requestIndex <= Len(options.chains.ids)
  /\ IF IsSupportedChain(options.chains.ids[requestIndex])
     THEN /\ startChainIds' =
               Append(startChainIds, options.chains.ids[requestIndex])
          /\ requestIndex' = requestIndex + 1
          /\ startPc' = IF requestIndex' > Len(options.chains.ids)
                        THEN "fallback" ELSE "chains"
          /\ UNCHANGED startExit
     ELSE /\ startPc' = "exited"
          /\ startExit' = 1
          /\ UNCHANGED << startChainIds, requestIndex >>
  /\ UNCHANGED << options, networkData, startTarget >>
  /\ UNCHANGED << unlVars, mainVars, catVars, sortVars, logVars, feedVars, uiVars >>

\* "If no valid chains, use Ethereum mainnet", the address is normalized,
\* and main is called
FallbackAndNormalize ==
  /\ startPc = "fallback"
  /\ startChainIds' = IF startChainIds = << >> THEN << 1 >> ELSE startChainIds
  /\ startTarget' = IF options.address = "TARGET" THEN "0xtarget"
                    ELSE toLowerCase(options.address)
  /\ startPc' = "main"
  /\ UNCHANGED << options, networkData, requestIndex, startExit >>
  /\ UNCHANGED << unlVars, mainVars, catVars, sortVars, logVars, feedVars, uiVars >>

(***************************************************************************)
(* The sort of the report on its own: lists of records as main builds      *)
(* them, of two chains, two tokens and two spenders, unlimited or with 5   *)
(* or 3 remaining of 5 approved, no two for the same chain, token and      *)
(* spender.                                                                *)
(***************************************************************************)
\* the records of one list
MaxListLen == 3

NotSorted == [sorted |-> FALSE, list |-> << >>]

SortRecord(chainId, tokenAddress, spender, approvedAmount, transferredAmount) ==
  ReconciledApproval(chainId, tokenAddress, spender,
    [amount |-> approvedAmount, blockNumber |-> 1, txHash |-> "0xh1"],
    IF transferredAmount = BigZero THEN EmptyMap
    ELSE Put(EmptyMap, tokenAddress, Put(EmptyMap, spender, transferredAmount)))

SortRecords ==
  {SortRecord(c, t, sp, am[1], am[2]) :
     c \in {1, 2}, t \in {"0xaa", "0xbb"}, sp \in {"0xs1", "0xs2"},
     am \in {<< MAX_UINT256, BigZero >>, << Amount5, BigZero >>,
             << Amount5, BigFromNat(2) >>}}

SameKey(a, b) ==
  /\ a.chainId = b.chainId
  /\ a.tokenAddress = b.tokenAddress
  /\ a.spender = b.spender

SortInputs ==
  {l \in UNION {[1..n -> SortRecords] : n \in 1..MaxListLen} :
     \A j \in 1..Len(l) : \A k \in 1..Len(l) : j # k => ~SameKey(l[j], l[k])}

SortIdle ==
  /\ sortInput = << >>
  /\ sortOutput = NotSorted

SortInit ==
  /\ sortInput \in SortInputs
  /\ sortOutput = NotSorted

\* main: approvalsList.sort((a, b) => ...)
SortList ==
  /\ sortInput # << >>
  /\ sortOutput = NotSorted
  /\ sortOutput' = [sorted |-> TRUE, list |-> SortApprovals(sortInput)]
  /\ UNCHANGED sortInput
  /\ UNCHANGED << unlVars, mainVars, catVars, startVars, logVars, feedVars, uiVars >>

(***************************************************************************)
(* scanChain's fold log by log: each step folds one log of a batch with    *)
(* the batch's transactions.                                               *)
(***************************************************************************)
\* the logs folded in one run
MaxFoldSteps == 3

NoLog == [Log("none", "none", "none", "none", NoAmount, 0, "none")
            EXCEPT !.decoded = FALSE]

FoldStepLogs ==
  { Log("Approval", "0xAA", "0xTARGET", "0xS1", Amount5, 1, "0xh1"),
    Log("Approval", "0xaa", "0xtarget", "0xs1", MAX_UINT256, 2, "0xh2"),
    Log("Transfer", "0xAA", "0xTARGET", "0xother", Amount3, 2, "0xh2"),
    Log("Transfer", "0xbb", "0xtarget", "0xother", Amount5, 2, "0xh2"),
    Log("Approval", "0xAA", "0xother", "0xS1", Amount5, 2, "0xh2"),
    Log("Transfer", "0xAA", "0xother", "0xTARGET", Amount5, 2, "0xh2"),
    Log("Approval", "0xaa", "0xtarget", "0xs2", Amount0, 2, "0xh2") }

\* res.data.transactions of the batch: none, the log's transaction sent by
\* a spender, by the target to a spender, by the target without destination,
\* only the transaction of another log, or that and the log's own
FoldStepTransactions ==
  { << >>,
    << Tx("0xh2", "0xS1", "0xAA") >>,
    << Tx("0xh1", "0xS1", "0xAA"), Tx("0xh2", "0xs2", "0xAA") >>,
    << Tx("0xh2", "0xTARGET", "0xS1") >>,
    << Tx("0xh2", "0xTARGET", "none") >>,
    << Tx("0xh1", "0xS1", "0xAA") >> }

\* is the log a Transfer out of the target that scanChain's fold is about
IsTargetTransfer(log) ==
  /\ log.decoded
  /\ log.topic0 = "Transfer"
  /\ log.address # "none"
  /\ IndexedAddress(log.indexed0) = TARGET_ADDRESS

LogIdle ==
  /\ fState = EmptyFold
  /\ fPrev = EmptyFold
  /\ fLog = NoLog
  /\ fTxs = << >>
  /\ fSteps = 0 - 1
  /\ fTotal = EmptyMap

LogInit ==
  /\ fState = EmptyFold
  /\ fPrev = EmptyFold
  /\ fLog = NoLog
  /\ fTxs = << >>
  /\ fSteps = 0
  /\ fTotal = EmptyMap

\* one round of "for (let i = 0; i < decodedLogs.length; i++)"
FoldOneLog ==
  /\ fSteps >= 0
  /\ fSteps < MaxFoldSteps
  /\ \E log \in FoldStepLogs, transactions \in FoldStepTransactions :
       /\ fLog' = log
       /\ fTxs' = transactions
       /\ fState' = FoldLog(fState, log, transactions)
       /\ fTotal' = IF IsTargetTransfer(log)
                    THEN LET token == toLowerCase(log.address)
                             old == IF Has(fTotal, token)
                                    THEN Get(fTotal, token) ELSE BigZero
                         IN  Put(fTotal, token,
                                 BigAdd(old, BodyAmount(log.amount)))
                    ELSE fTotal
  /\ fPrev' = fState
  /\ fSteps' = fSteps + 1
  /\ UNCHANGED << unlVars, mainVars, catVars, startVars, sortVars, feedVars, uiVars >>

(***************************************************************************)
(* scanChain against streams fixed in advance.  An item of a feed is what  *)
(* one call of stream.recv() resolves to and how its processing goes:      *)
(*   "batch"         the batch is decoded and folded                       *)
(*   "decodeThrows"  decoder.decodeLogs rejects for the batch              *)
(* After its items a feed gives null, or throws on every call.  A feed     *)
(* that does not open has no items.                                        *)
(***************************************************************************)
\* the calls of stream.recv() of one scanChain that resolve to a batch
MaxFeed == 2

FeedItem(kind, events, nextBlock) ==
  [kind |-> kind, events |-> events, nextBlock |-> nextBlock]

\* a log without an address (its handling throws), an Approval, and a log the
\* decoder returns null for
MixedBatch ==
  FeedItem("batch",
           << Event([Log("Approval", "0xAA", "0xTARGET", "0xS1", Amount3, 1,
                         "0xh1") EXCEPT !.address = "none"], NoTx),
              ApprovalEvent("0xAA", "0xS1", Amount5, 1, "0xh1"),
              Event([Log("Transfer", "0xAA", "0xTARGET", "0xother", Amount5, 1,
                         "0xh1") EXCEPT !.decoded = FALSE], NoTx) >>,
           5)

\* a transfer the spender 0xs1 made, in a batch whose nextBlock is past the
\* height
SpentBatch ==
  FeedItem("batch",
           << TransferEvent("0xAA", Amount3, 2, "0xh2",
                            Tx("0xh2", "0xS1", "0xAA")) >>,
           50)

UndecodableBatch ==
  FeedItem("decodeThrows",
           << ApprovalEvent("0xbb", "0xs2", MAX_UINT256, 2, "0xh2") >>, 50)

FeedItems == {MixedBatch, SpentBatch, UndecodableBatch}

Stream(opens, items, tail) == [opens |-> opens, items |-> items, tail |-> tail]

\* the streams of the first chain of the list
Feeds ==
  {Stream(FALSE, << >>, "null")}
    \cup {Stream(TRUE, items, tail) :
            items \in UNION {[1..k -> FeedItems] : k \in 0..MaxFeed},
            tail \in {"null", "failing"}}

\* the streams of the other chains
OtherFeeds ==
  {Stream(TRUE, << >>, "null"), Stream(TRUE, << MixedBatch >>, "null")}

FeedIdle ==
  /\ feed = << >>
  /\ feedPos = << >>

\* the streams of the first chain in the runs that are checked for progress
LiveFeeds ==
  {Stream(FALSE, << >>, "null")}
    \cup {Stream(TRUE, items, tail) :
            items \in {<< >>, << MixedBatch >>, << MixedBatch, SpentBatch >>,
                       << SpentBatch, UndecodableBatch >>},
            tail \in {"null", "failing"}}

FeedInit(first, others) ==
  /\ feed \in [1..Len(CHAIN_IDS) -> first \cup others]
  /\ \A i \in 2..Len(CHAIN_IDS) : feed[i] \in others
  /\ feed[1] \in first
  /\ feedPos = [i \in 1..Len(CHAIN_IDS) |-> 0]

\* a promise reaction is queued (a handler of main, the catch of a loop, or
\* main's catch once Promise.all has rejected): it runs before any timer or
\* I/O callback
JobPending ==
  \E i \in Indices :
    \/ scanner[i].pc \in {"returned", "threw", "caught"}
    \/ scanner[i].result = "rejected"

\* await client.stream(query, {}) of a fed scanChain
OpenFeed(i) ==
  /\ ~JobPending
  /\ OpenStream(i)
  /\ scanner'[i].rejected = ~feed[i].opens

\* the items of its feed scanner i has received
ReceivedItems(i) == SubSeq(feed[i].items, 1, feedPos[i])

ReceiveItem_CountsDecoded(sc, stats, item, redraw) ==
  LET batch == MakeBatch(item.events, item.nextBlock)
      seen == IF batch.nextBlock # 0
              THEN [stats EXCEPT !.lastBlockSeen = batch.nextBlock] ELSE stats
      decoded == Cardinality({k \in 1..Len(batch.logs) : batch.logs[k].decoded})
      counted == [seen EXCEPT !.totalEvents = @ + decoded]
      folded == FoldBatch([approvals |-> sc.approvals,
                           transfersUsingApprovals |->
                             sc.transfersUsingApprovals], batch)
  IN  IF item.kind = "decodeThrows"
      THEN [scanner |-> [sc EXCEPT !.batches = @ + 1,
                                   !.events = @ + Len(item.events)],
            stats |-> counted]
      ELSE [scanner |->
              [sc EXCEPT
                 !.approvals = folded.approvals,
                 !.transfersUsingApprovals = folded.transfersUsingApprovals,
                 !.fromBlock = IF item.nextBlock # 0 THEN item.nextBlock ELSE @,
                 !.batches = @ + 1,
                 !.events = @ + Len(item.events)],
            stats |-> [counted EXCEPT !.progressBar =
                         StatsAfterBatch(stats, batch, redraw).progressBar]]

(***************************************************************************)
(* One round of scanChain's "while (true)" for a batch: what becomes of    *)
(* the scanner and of the chain's stats.  lastBlockSeen and totalEvents    *)
(* are written before the logs are decoded; when decodeLogs rejects, the   *)
(* catch of the loop logs the error and the round ends there, with nothing *)
(* folded and query.fromBlock as it was.                                   *)
(***************************************************************************)
ReceiveItem(sc, stats, item, redraw) ==
  LET batch == MakeBatch(item.events, item.nextBlock)
      seen == IF batch.nextBlock # 0
              THEN [stats EXCEPT !.lastBlockSeen = batch.nextBlock] ELSE stats
      counted == [seen EXCEPT !.totalEvents = @ + Len(batch.logs)]
      folded == FoldBatch([approvals |-> sc.approvals,
                           transfersUsingApprovals |->
                             sc.transfersUsingApprovals], batch)
  IN  IF item.kind = "decodeThrows"
      THEN [scanner |-> [sc EXCEPT !.batches = @ + 1,
                                   !.events = @ + Len(item.events)],
            stats |-> counted]
      ELSE [scanner |->
              [sc EXCEPT
                 !.approvals = folded.approvals,
                 !.transfersUsingApprovals = folded.transfersUsingApprovals,
                 !.fromBlock = IF item.nextBlock # 0 THEN item.nextBlock ELSE @,
                 !.batches = @ + 1,
                 !.events = @ + Len(item.events)],
            stats |-> StatsAfterBatch(stats, batch, redraw)]

\* scanChain: stream.recv() resolves to the next batch of the feed
RecvFed(i) ==
  /\ pc = "scanning"
  /\ ~JobPending
  /\ scanner[i].pc = "streaming"
  /\ feedPos[i] < Len(feed[i].items)
  /\ \E redraw \in BOOLEAN :
       LET item == feed[i].items[feedPos[i] + 1]
           after == ReceiveItem(scanner[i], chainStats[CHAIN_IDS[i]], item,
                                redraw)
       IN  /\ scanner' = [scanner EXCEPT ![i] = after.scanner]
           /\ chainStats' = [chainStats EXCEPT ![CHAIN_IDS[i]] = after.stats]
           /\ history' = [history EXCEPT ![i] =
                IF item.kind = "batch"
                THEN Observe(@, MakeBatch(item.events, item.nextBlock).logs, 1)
                ELSE @]
  /\ feedPos' = [feedPos EXCEPT ![i] = @ + 1]
  /\ UNCHANGED << data, CHAIN_IDS, pc, initIndex, uiUpdateInterval,
                  approvalsList, exitCode, feed >>
  /\ UNCHANGED << unlVars, catVars, startVars, sortVars, logVars, uiVars >>

\* scanChain: the feed is at its end and stream.recv() resolves to null
RecvEnd(i) ==
  /\ ~JobPending
  /\ feedPos[i] = Len(feed[i].items)
  /\ feed[i].tail = "null"
  /\ RecvNull(i)

(***************************************************************************)
(* scanChain: stream.recv() throws, as it does on every call from here on: *)
(* the catch of the loop is entered ("caught"), it logs the error, and the *)
(* loop calls recv again.                                                  *)
(***************************************************************************)
RecvThrows(i) ==
  /\ pc = "scanning"
  /\ ~JobPending
  /\ scanner[i].pc = "streaming"
  /\ feedPos[i] = Len(feed[i].items)
  /\ feed[i].tail = "failing"
  /\ scanner' = [scanner EXCEPT ![i].pc = "caught"]
  /\ UNCHANGED << data, CHAIN_IDS, pc, initIndex, chainStats,
                  uiUpdateInterval, approvalsList, exitCode, history >>
  /\ UNCHANGED << unlVars, catVars, startVars, sortVars, logVars, feedVars,
                  uiVars >>

\* scanChain: the catch of the loop is done, "while (true)" goes round
RetryRecv(i) ==
  /\ pc = "scanning"
  /\ scanner[i].pc = "caught"
  /\ scanner' = [scanner EXCEPT ![i].pc = "streaming"]
  /\ UNCHANGED << data, CHAIN_IDS, pc, initIndex, chainStats,
                  uiUpdateInterval, approvalsList, exitCode, history >>
  /\ UNCHANGED << unlVars, catVars, startVars, sortVars, logVars, feedVars,
                  uiVars >>

\* the 500 ms timer fires
TimerTick ==
  /\ ~JobPending
  /\ UiTick

(***************************************************************************)
(* The interactive list: the selection, the pages, and the token metadata  *)
(* fetched in the background for the page on display.                      *)
(***************************************************************************)
PAGE_SIZE == 8

\* the records of the list the prompt is run on
MaxApprovals == 17

\* the records of the list the metadata is fetched for
MaxMetaLen == 2

\* the calls of fetchTokenMetadataInBackground in flight when a command is
\* typed
MaxBackground == 2

UiIdle ==
  /\ uiPc = "off"
  /\ selectedApprovalIndex = 0
  /\ currentPage = 0
  /\ extraRpcs = {}
  /\ tokenMetadataCache = EmptyMap
  /\ background = << >>

\* main has built a list that is not empty and is about to display it
InteractiveInit(lists, rpcs) ==
  /\ data = "none"
  /\ CHAIN_IDS = << 1, 2 >>
  /\ pc = "interactive"
  /\ initIndex = 0
  /\ chainStats = << >>
  /\ scanner = << >>
  /\ uiUpdateInterval = FALSE
  /\ approvalsList \in lists
  /\ exitCode = 0 - 1
  /\ history = << >>
  /\ uiPc = "start"
  /\ selectedApprovalIndex = 0
  /\ currentPage = 0
  /\ extraRpcs \in rpcs
  /\ tokenMetadataCache = EmptyMap
  /\ background = << >>

\* `${approval.chainId}:${approval.tokenAddress}`
CacheKey(approval) == << approval.chainId, approval.tokenAddress >>

RECURSIVE TokensToFetch(_, _, _, _)
\* fetchTokenMetadataInBackground: one entry per record of the page whose
\* key is not in the cache (the entries are objects, so none is merged
\* with another): per key, how many there are
TokensToFetch(list, cache, i, endIdx) ==
  IF i >= endIdx THEN EmptyMap
  ELSE LET rest == TokensToFetch(list, cache, i + 1, endIdx)
           key == CacheKey(list[i + 1])
       IN  IF i < Len(list) /\ ~Has(cache, key)
           THEN Put(rest, key, IF Has(rest, key) THEN Get(rest, key) + 1 ELSE 1)
           ELSE rest

\* displayApprovalsList: the page is drawn and
\* fetchTokenMetadataInBackground(startIdx, endIdx) is called: it starts a
\* fetch per token to fetch and awaits them, or returns when there is none
displayApprovalsList(list, page, cache, calls) ==
  LET startIdx == page * PAGE_SIZE
      endIdx == IF startIdx + PAGE_SIZE < Len(list)
                THEN startIdx + PAGE_SIZE ELSE Len(list)
      tokensToFetch == TokensToFetch(list, cache, startIdx, endIdx)
  IN  IF tokensToFetch = << >> THEN calls ELSE Append(calls, tokensToFetch)

\* main: displayApprovalsList(); startInteractivePrompt()
ShowList ==
  /\ uiPc = "start"
  /\ uiPc' = "prompt"
  /\ background' = displayApprovalsList(approvalsList, currentPage,
                                        tokenMetadataCache, background)
  /\ UNCHANGED << selectedApprovalIndex, currentPage, extraRpcs,
                  tokenMetadataCache >>
  /\ UNCHANGED << unlVars, mainVars, catVars, startVars, sortVars, logVars,
                  feedVars >>

\* what a command leaves of the state it does not write
AfterCommand ==
  /\ background' = displayApprovalsList(approvalsList, currentPage',
                                        tokenMetadataCache, background)
  /\ UNCHANGED << uiPc, extraRpcs, tokenMetadataCache >>
  /\ UNCHANGED << unlVars, mainVars, catVars, startVars, sortVars, logVars,
                  feedVars >>

\* a command is typed
CommandTyped ==
  /\ uiPc = "prompt"
  /\ Len(background) < MaxBackground

SelectNext_NoPageUpdate ==
  /\ CommandTyped
  /\ IF selectedApprovalIndex < Len(approvalsList) - 1
     THEN /\ selectedApprovalIndex' = selectedApprovalIndex + 1
          /\ currentPage' = currentPage
     ELSE UNCHANGED << selectedApprovalIndex, currentPage >>
  /\ AfterCommand

\* the command n
SelectNext ==
  /\ CommandTyped
  /\ IF selectedApprovalIndex < Len(approvalsList) - 1
     THEN /\ selectedApprovalIndex' = selectedApprovalIndex + 1
          /\ currentPage' =
               IF selectedApprovalIndex' >= (currentPage + 1) * PAGE_SIZE
               THEN selectedApprovalIndex' \div PAGE_SIZE
               ELSE currentPage
     ELSE UNCHANGED << selectedApprovalIndex, currentPage >>
  /\ AfterCommand

\* the command p
SelectPrevious ==
  /\ CommandTyped
  /\ IF selectedApprovalIndex > 0
     THEN /\ selectedApprovalIndex' = selectedApprovalIndex - 1
          /\ currentPage' =
               IF selectedApprovalIndex' < currentPage * PAGE_SIZE
               THEN selectedApprovalIndex' \div PAGE_SIZE
               ELSE currentPage
     ELSE UNCHANGED << selectedApprovalIndex, currentPage >>
  /\ AfterCommand

\* the command >
NextPage ==
  /\ CommandTyped
  /\ IF (currentPage + 1) * PAGE_SIZE < Len(approvalsList)
     THEN /\ currentPage' = currentPage + 1
          /\ selectedApprovalIndex' = currentPage' * PAGE_SIZE
     ELSE UNCHANGED << selectedApprovalIndex, currentPage >>
  /\ AfterCommand

\* the command <
PreviousPage ==
  /\ CommandTyped
  /\ IF currentPage > 0
     THEN /\ currentPage' = currentPage - 1
          /\ selectedApprovalIndex' = currentPage' * PAGE_SIZE
     ELSE UNCHANGED << selectedApprovalIndex, currentPage >>
  /\ AfterCommand

(***************************************************************************)
(* fetchTokenMetadata returns for a fetch of key k of call c.  With no RPC *)
(* URL for the chain it returns the default metadata, the cache untouched; *)
(* otherwise it caches what an RPC gave, or the default once every RPC     *)
(* failed.                                                                 *)
(***************************************************************************)
FetchReturns(c, k) ==
  /\ uiPc = "prompt"
  /\ c \in 1..Len(background)
  /\ k \in 1..Len(background[c])
  /\ background[c][k][2] > 0
  /\ \E success \in BOOLEAN :
       LET key == background[c][k][1]
       IN  tokenMetadataCache' =
             IF key[1] \in extraRpcs
             THEN Put(tokenMetadataCache, key, success)
             ELSE tokenMetadataCache
  /\ background' = [background EXCEPT ![c][k][2] = @ - 1]
  /\ UNCHANGED << uiPc, selectedApprovalIndex, currentPage, extraRpcs >>
  /\ UNCHANGED << unlVars, mainVars, catVars, startVars, sortVars, logVars,
                  feedVars >>

\* fetchTokenMetadataInBackground, call c: every fetch has returned,
\* Promise.all resolves and displayApprovalsList is called
BackgroundDone(c) ==
  /\ uiPc = "prompt"
  /\ c \in 1..Len(background)
  /\ \A k \in 1..Len(background[c]) : background[c][k][2] = 0
  /\ LET others == [j \in 1..(Len(background) - 1) |->
                      IF j < c THEN background[j] ELSE background[j + 1]]
     IN  background' = displayApprovalsList(approvalsList, currentPage,
                                            tokenMetadataCache, others)
  /\ UNCHANGED << uiPc, selectedApprovalIndex, currentPage, extraRpcs,
                  tokenMetadataCache >>
  /\ UNCHANGED << unlVars, mainVars, catVars, startVars, sortVars, logVars,
                  feedVars >>

\* the list the prompt is run on: records of one token on one chain
PromptLists ==
  {[k \in 1..n |-> SortRecord(1, "0xaa", "0xs1", Amount5, Amount3)] :
     n \in 1..MaxApprovals}

\* the lists the metadata is fetched for: records on two chains
MetaRecords ==
  {SortRecord(chainId, tokenAddress, "0xs1", Amount5, Amount3) :
     chainId \in {1, 2}, tokenAddress \in {"0xaa", "0xbb"}}

MetaLists == UNION {[1..n -> MetaRecords] : n \in 1..MaxMetaLen}

(***************************************************************************)
(* The specifications.                                                     *)
(***************************************************************************)
\* several chains scanned at once
Init ==
  /\ MainInit("small", {<< 1, 2 >>, << 2, 1 >>, << 1, 1 >>})
  /\ UnlIdle
  /\ CatIdle
  /\ StartIdle
  /\ SortIdle
  /\ LogIdle
  /\ FeedIdle
  /\ UiIdle

Next ==
  \/ HeightLookup
  \/ StartScans
  \/ \E i \in Indices : OpenStream(i)
  \/ \E i \in Indices : RecvBatch(i)
  \/ \E i \in Indices : RecvNull(i)
  \/ \E i \in Indices : ThenHandler(i)
  \/ \E i \in Indices : CatchHandler(i)
  \/ UiTick
  \/ BuildReport
  \/ MainCatch

Spec == Init /\ [][Next]_vars

\* one chain, with the larger chain data
InitFold ==
  /\ MainInit("large", {<< 1 >>})
  /\ UnlIdle /\ CatIdle /\ StartIdle /\ SortIdle /\ LogIdle
  /\ FeedIdle /\ UiIdle

\* with one chain no handler's displayScanProgress can throw (the only chain
\* is no longer scanning when its handler runs), so Promise.all never rejects
NextFold ==
  \/ HeightLookup
  \/ StartScans
  \/ \E i \in Indices : OpenStream(i)
  \/ \E i \in Indices : RecvBatch(i)
  \/ \E i \in Indices : RecvNull(i)
  \/ \E i \in Indices : ThenHandler(i)
  \/ \E i \in Indices : CatchHandler(i)
  \/ UiTick
  \/ BuildReport

SpecFold == InitFold /\ [][NextFold]_vars

\* the unlimited classification on its own
InitUnl ==
  MainIdle /\ UnlInit /\ CatIdle /\ StartIdle /\ SortIdle /\ LogIdle
  /\ FeedIdle /\ UiIdle

NextUnl == Classify

SpecUnl == InitUnl /\ [][NextUnl]_vars

\* the fold of two batches on its own
InitCat ==
  MainIdle /\ UnlIdle /\ CatInit /\ StartIdle /\ SortIdle /\ LogIdle
  /\ FeedIdle /\ UiIdle

NextCat == FoldInSequence \/ FoldConcatenation

SpecCat == InitCat /\ [][NextCat]_vars

\* the start of the program on its own
InitStart ==
  MainIdle /\ UnlIdle /\ CatIdle /\ StartInit /\ SortIdle /\ LogIdle
  /\ FeedIdle /\ UiIdle

NextStart ==
  \/ ListChains
  \/ CheckAddress
  \/ ResolveMany
  \/ ResolveRequested
  \/ FallbackAndNormalize

SpecStart == InitStart /\ [][NextStart]_vars

\* the sort of the report on its own
InitSort ==
  MainIdle /\ UnlIdle /\ CatIdle /\ StartIdle /\ SortInit /\ LogIdle
  /\ FeedIdle /\ UiIdle

NextSort == SortList

SpecSort == InitSort /\ [][NextSort]_vars

\* the fold log by log
InitLog ==
  MainIdle /\ UnlIdle /\ CatIdle /\ StartIdle /\ SortIdle /\ LogInit
  /\ FeedIdle /\ UiIdle

NextLog == FoldOneLog

SpecLog == InitLog /\ [][NextLog]_vars

\* several chains scanned at once, their streams fixed in advance
InitScan ==
  /\ MainInit("feed", {<< 1 >>, << 1, 2 >>, << 2, 1 >>, << 1, 1 >>})
  /\ UnlIdle /\ CatIdle /\ StartIdle /\ SortIdle /\ LogIdle
  /\ FeedInit(Feeds, OtherFeeds) /\ UiIdle

NextScan ==
  \/ HeightLookup
  \/ StartScans
  \/ \E i \in Indices : OpenFeed(i)
  \/ \E i \in Indices : RecvFed(i)
  \/ \E i \in Indices : RecvEnd(i)
  \/ \E i \in Indices : RecvThrows(i)
  \/ \E i \in Indices : RetryRecv(i)
  \/ \E i \in Indices : ThenHandler(i)
  \/ \E i \in Indices : CatchHandler(i)
  \/ TimerTick
  \/ BuildReport
  \/ MainCatch

SpecScan == InitScan /\ [][NextScan]_vars

\* the same with fewer streams, and with the event loop running every
\* callback that is ready
InitScanLive ==
  /\ MainInit("feed", {<< 1 >>, << 1, 2 >>, << 1, 1 >>})
  /\ UnlIdle /\ CatIdle /\ StartIdle /\ SortIdle /\ LogIdle
  /\ FeedInit(LiveFeeds, OtherFeeds) /\ UiIdle

SpecScanLive == InitScanLive /\ [][NextScan]_vars /\ WF_vars(NextScan)

\* the background fetch of the metadata with no command typed
InitMeta ==
  /\ InteractiveInit(MetaLists, SUBSET {1, 2})
  /\ UnlIdle /\ CatIdle /\ StartIdle /\ SortIdle /\ LogIdle /\ FeedIdle

NextMeta ==
  \/ ShowList
  \/ \E c \in 1..Len(background) : \E k \in 1..Len(background[c]) :
       FetchReturns(c, k)
  \/ \E c \in 1..Len(background) : BackgroundDone(c)

SpecMeta == InitMeta /\ [][NextMeta]_vars /\ WF_vars(NextMeta)

\* the prompt
InitPrompt ==
  /\ InteractiveInit(PromptLists, {{}, {1}})
  /\ UnlIdle /\ CatIdle /\ StartIdle /\ SortIdle /\ LogIdle /\ FeedIdle

NextPrompt ==
  \/ ShowList
  \/ SelectNext
  \/ SelectPrevious
  \/ NextPage
  \/ PreviousPage
  \/ \E c \in 1..Len(background) : \E k \in 1..Len(background[c]) :
       FetchReturns(c, k)
  \/ \E c \in 1..Len(background) : BackgroundDone(c)

SpecPrompt == InitPrompt /\ [][NextPrompt]_vars

(***************************************************************************)
(* Properties.                                                             *)
(***************************************************************************)
\* main got past Promise.all and built approvalsList
ReportBuilt == pc = "interactive" \/ (pc = "exited" /\ exitCode = 0)

\* the amount scanner i holds for the pair key = << token, spender >>
HeldAmount(i, key) == Get(Get(scanner[i].approvals, key[1]), key[2]).amount

IsHeld(i, key) ==
  /\ Has(scanner[i].approvals, key[1])
  /\ Has(Get(scanner[i].approvals, key[1]), key[2])

\* the records main computes from the results, before "remainingApproval > 0"
ComputedRecords ==
  UNION {{ChainRecords(CHAIN_IDS[i], Results[i])[k] :
            k \in 1..Len(ChainRecords(CHAIN_IDS[i], Results[i]))} :
         i \in Indices}

ListedRecords == {approvalsList[k] : k \in 1..Len(approvalsList)}

IsListed(chainId, key) ==
  \E r \in ListedRecords :
    r.chainId = chainId /\ r.tokenAddress = key[1] /\ r.spender = key[2]

\* C1 (as the spec states it): for every (token, spender), the amount held in
\* approvals[token][spender] is that of the Approval with the highest
\* blockNumber among those folded (the later one on a tie), whatever the
\* order of arrival.
C1_HighestBlockWins ==
  \A i \in Indices : \A k \in 1..Len(history[i]) :
    /\ IsHeld(i, history[i][k][1])
    /\ HeldAmount(i, history[i][k][1]) = history[i][k][2].best

\* C1 (amended): the amount held for (token, spender) is that of the last
\* Approval of the target folded for the pair; it is the amount of the
\* Approval with the highest blockNumber (the later one on a tie) when the
\* pair's Approvals were folded in non-decreasing block order.
C1_LastFoldedWins ==
  \A i \in Indices : \A k \in 1..Len(history[i]) :
    /\ IsHeld(i, history[i][k][1])
    /\ HeldAmount(i, history[i][k][1]) = history[i][k][2].last
    /\ history[i][k][2].ordered =>
         HeldAmount(i, history[i][k][1]) = history[i][k][2].best

\* two Approvals of one pair folded in block order, the later one with
\* another amount, which is the amount held
C1_Witness ==
  \E i \in Indices : \E k \in 1..Len(history[i]) :
    /\ history[i][k][2].count >= 2
    /\ history[i][k][2].ordered
    /\ history[i][k][2].firstBlock < history[i][k][2].bestBlock
    /\ history[i][k][2].first # history[i][k][2].best
    /\ HeldAmount(i, history[i][k][1]) = history[i][k][2].best

\* C2: in the report main builds, a record whose approvedAmount is not
\* unlimited has remainingApproval + transferredAmount = approvedAmount when
\* transferredAmount <= approvedAmount and remainingApproval = 0 when
\* transferredAmount > approvedAmount; remainingApproval is a BigInt >= 0
\* (every limb in 0..Base-1) and is not above approvedAmount.
C2_RemainingIsDifference ==
  ReportBuilt =>
    \A r \in ComputedRecords \cup ListedRecords :
      ~BigGT(r.approvedAmount, ThresholdLimbs) =>
        /\ \A n \in 1..Len(r.remainingApproval) :
             r.remainingApproval[n] \in 0..(Base - 1)
        /\ ~BigGT(r.remainingApproval, r.approvedAmount)
        /\ IF BigGT(r.transferredAmount, r.approvedAmount)
           THEN r.remainingApproval = BigZero
           ELSE BigAdd(r.remainingApproval, r.transferredAmount)
                  = r.approvedAmount

\* a listed record with 0 < transferred < approved, and a computed one with
\* transferred > approved > 0
C2_Witness ==
  /\ ReportBuilt
  /\ \E r \in ListedRecords :
       /\ ~r.isUnlimited
       /\ BigGT(r.transferredAmount, BigZero)
       /\ BigGT(r.approvedAmount, r.transferredAmount)
       /\ r.remainingApproval = BigFromNat(2)
  /\ \E i \in Indices : chainStats[CHAIN_IDS[i]].approvalsCount = 1

\* a record computed with transferred > approved > 0: its remainder is 0
C2_WitnessClamped ==
  /\ ReportBuilt
  /\ \E r \in ComputedRecords :
       /\ BigGT(r.approvedAmount, BigZero)
       /\ BigGT(r.transferredAmount, r.approvedAmount)
       /\ r.remainingApproval = BigZero

\* C3: once main has built and sorted approvalsList, no record of it has a
\* remainingApproval of 0.
C3_NoZeroRemaining ==
  \A k \in 1..Len(approvalsList) :
    approvalsList[k].remainingApproval # BigZero

\* a list was built from results that hold an approval with nothing remaining
C3_Witness ==
  /\ pc = "interactive"
  /\ approvalsList # << >>
  /\ \E r \in ComputedRecords : r.remainingApproval = BigZero

\* C4: the unlimited classification of the report builder is true exactly
\* for the amounts above MAX_UINT256 - MAX_UINT256/1000: among the amounts
\* tried, for those up to UnlSpan below 2^256-1 and those above the
\* threshold, and for none at or below the threshold or near 0.
C4_UnlimitedIffAboveThreshold ==
  uResult # "unset" =>
    ((uResult = "unlimited") <=>
       (uAnchor = "max" \/ (uAnchor = "threshold" /\ uOffset > 0)))

\* threshold + 1 has been classified unlimited
C4_Witness ==
  /\ uResult = "unlimited"
  /\ uAnchor = "threshold"
  /\ uOffset = 1
  /\ uAmount = BigAdd(ThresholdLimbs, BigFromNat(1))

\* the threshold itself has been classified limited
C4_WitnessThreshold ==
  /\ uResult = "limited"
  /\ uAnchor = "threshold"
  /\ uOffset = 0
  /\ uAmount = LARGE_THRESHOLD

\* C5 (as the spec states it): for any two records of the report that differ
\* in chainId, tokenAddress or spender, the comparator returns a non-zero
\* result and compare(a, b), compare(b, a) have opposite signs.
C5_ComparatorIsTotal ==
  \A a \in ListedRecords : \A b \in ListedRecords :
    (a.chainId # b.chainId \/ a.tokenAddress # b.tokenAddress
       \/ a.spender # b.spender) =>
      /\ compareApprovals(a, b) # 0
      /\ Sign(compareApprovals(a, b)) = 0 - Sign(compareApprovals(b, a))

\* C6: two batches with no block in common folded one after the other leave
\* approvals and transfersUsingApprovals as folding the one batch does that
\* holds the logs and transactions of both.
C6_SequenceEqualsConcatenation ==
  (cSeq # NotFolded /\ cCat # NotFolded) => cSeq = cCat

\* both folds done on two non-empty batches, the first with two logs, a
\* transfer attributed to the spender of an approval held
C6_Witness ==
  /\ cSeq # NotFolded
  /\ cCat # NotFolded
  /\ Len(cFirst) = 2
  /\ cSecond # << >>
  /\ \E k \in 1..2 : cFirst[k].log.topic0 = "Transfer"
  /\ Has(cSeq.approvals, "0xaa")
  /\ Has(Get(cSeq.approvals, "0xaa"), "0xs1")
  /\ TransferredAmount(cCat.transfersUsingApprovals, "0xaa", "0xs1") # BigZero

\* C7 (as the spec states it): a chain whose height lookup failed (its
\* height stays 0) has no record in the final list, and the process does
\* not exit with a non-zero code.
C7_HeightFailureIsContained ==
  \A c \in DOMAIN chainStats :
    (pc # "init" /\ chainStats[c].height = 0) =>
      /\ exitCode \in {0 - 1, 0}
      /\ \A r \in ListedRecords : r.chainId # c

\* C8 (as the spec states it): once the promise of a chain whose scanChain
\* rejected is settled, main holds the empty result for the chain and the
\* chain is marked not scanning and complete.
C8_RejectionGivesEmptyResult ==
  \A i \in Indices :
    (scanner[i].rejected /\ scanner[i].pc = "settled") =>
      /\ scanner[i].result = "empty"
      /\ ~chainStats[CHAIN_IDS[i]].isScanning
      /\ chainStats[CHAIN_IDS[i]].isComplete

\* C9: when the last Approval of the target folded for a pair has amount 0,
\* the final list has no record for the pair on that chain.
C9_ZeroApprovalNotListed ==
  ReportBuilt =>
    \A i \in Indices : \A k \in 1..Len(history[i]) :
      history[i][k][2].last = BigZero =>
        ~IsListed(CHAIN_IDS[i], history[i][k][1])

\* a report built after a pair's non-zero approval was followed by one of
\* amount 0
C9_Witness ==
  /\ ReportBuilt
  /\ \E i \in Indices : \E k \in 1..Len(history[i]) :
       /\ history[i][k][2].count >= 2
       /\ history[i][k][2].first # BigZero
       /\ history[i][k][2].last = BigZero
       /\ scanner[i].result = "own"

\* C10: an approval main is given whose approvedAmount is unlimited (above
\* MAX_UINT256 - MAX_UINT256/1000) is in the final list, with isUnlimited
\* true and remainingApproval equal to approvedAmount, whatever was
\* transferred by its spender.
C10_UnlimitedIsListed ==
  ReportBuilt =>
    \A i \in Indices : \A k \in 1..Len(history[i]) :
      (scanner[i].result = "own"
         /\ BigGT(history[i][k][2].last, ThresholdLimbs)) =>
        \E r \in ListedRecords :
          /\ r.chainId = CHAIN_IDS[i]
          /\ r.tokenAddress = history[i][k][1][1]
          /\ r.spender = history[i][k][1][2]
          /\ r.isUnlimited
          /\ r.approvedAmount = history[i][k][2].last
          /\ r.remainingApproval = r.approvedAmount

\* an unlimited approval listed although its spender transferred as much
C10_Witness ==
  /\ pc = "interactive"
  /\ \E r \in ListedRecords :
       /\ r.isUnlimited
       /\ r.approvedAmount = MAX_UINT256
       /\ ~BigGT(r.approvedAmount, r.transferredAmount)
       /\ r.remainingApproval = r.approvedAmount

\* C11 (as the spec states it): the final list holds at most one record per
\* (chainId, tokenAddress, spender), also when CHAIN_IDS names a chain twice.
C11_ListIsDeduplicated ==
  \A j \in 1..Len(approvalsList) : \A k \in 1..Len(approvalsList) :
    j # k =>
      \/ approvalsList[j].chainId # approvalsList[k].chainId
      \/ approvalsList[j].tokenAddress # approvalsList[k].tokenAddress
      \/ approvalsList[j].spender # approvalsList[k].spender

\* the configuration cannot be used: no address is given, or --chains names
\* an id that is no supported chain
StartupError ==
  \/ options.address = "none"
  \/ /\ ~options.chains.many
     /\ \E k \in 1..Len(options.chains.ids) :
          ~IsSupportedChain(options.chains.ids[k])

\* C12 (as the spec states it): with a startup-configuration error main is
\* never called, and the exit of the process has code 1.
C12_StartupErrorExitsNonZero ==
  (~options.listChains /\ StartupError) =>
    /\ startPc # "main"
    /\ startPc = "exited" => startExit = 1

C14_TokensAreContiguous ==
  sortOutput.sorted =>
    \A j \in 1..Len(sortOutput.list) : \A k \in 1..Len(sortOutput.list) :
      (j < k /\ sortOutput.list[j].chainId = sortOutput.list[k].chainId
             /\ sortOutput.list[j].tokenAddress = sortOutput.list[k].tokenAddress) =>
        \A m \in j..k :
          /\ sortOutput.list[m].chainId = sortOutput.list[j].chainId
          /\ sortOutput.list[m].tokenAddress = sortOutput.list[j].tokenAddress

\* the tokens and the addresses the log-by-log fold can hold amounts for
FoldTokens == {"0xaa", "0xbb"}

FoldPeople == {"0xtarget", "0xs1", "0xs2", "0xother", "0xaa", "none"}

AmountIn(st, token, who) ==
  TransferredAmount(st.transfersUsingApprovals, token, who)

HasApproval(st, token, who) ==
  Has(st.approvals, token) /\ Has(Get(st.approvals, token), who)

\* the batch of the last log carries a transaction with the log's hash
BatchHasTx == \E k \in 1..Len(fTxs) : fTxs[k].hash = fLog.transactionHash

\* the first such transaction
BatchTx ==
  fTxs[CHOOSE k \in 1..Len(fTxs) :
         /\ fTxs[k].hash = fLog.transactionHash
         /\ \A m \in 1..(k - 1) : fTxs[m].hash # fLog.transactionHash]

\* the last log left every amount of transfersUsingApprovals as it was,
\* except that of token and who
AmountsKeptExcept(token, who) ==
  \A t \in FoldTokens : \A w \in FoldPeople :
    (t # token \/ w # who) => AmountIn(fState, t, w) = AmountIn(fPrev, t, w)

AmountsKept == AmountsKeptExcept("none", "none")

\* C15: a Transfer log with from = target adds its amount to
\* transfersUsingApprovals[token][txSender] exactly when its batch carries
\* the log's transaction and the sender is not the target, with or without
\* an approval for the sender; without the transaction in the batch no
\* amount changes; approvals stay as they were.
C15_SpenderInitiatedAttribution ==
  IsTargetTransfer(fLog) =>
    LET token == toLowerCase(fLog.address)
    IN  /\ fState.approvals = fPrev.approvals
        /\ IF BatchHasTx
           THEN LET sender == toLowerCase(BatchTx.from)
                IN  IF sender # TARGET_ADDRESS
                    THEN /\ AmountIn(fState, token, sender)
                              = BigAdd(AmountIn(fPrev, token, sender),
                                       fLog.amount)
                         /\ AmountsKeptExcept(token, sender)
                    ELSE AmountIn(fState, token, sender)
                           = AmountIn(fPrev, token, sender)
           ELSE AmountsKept

\* a transfer attributed to the sender of its transaction, 0xs2, for whom
\* no approval is recorded, after a transfer of the token that was not
\* attributed to 0xs2
C15_Witness ==
  /\ IsTargetTransfer(fLog)
  /\ BatchHasTx
  /\ toLowerCase(BatchTx.from) = "0xs2"
  /\ ~HasApproval(fPrev, "0xaa", "0xs2")
  /\ AmountIn(fPrev, "0xaa", "0xs2") = BigZero
  /\ AmountIn(fState, "0xaa", "0xs2") = Amount3
  /\ Has(fTotal, "0xaa") /\ Get(fTotal, "0xaa") = BigFromNat(6)

\* C16: a Transfer log with from = target whose transaction was sent by the
\* target to d adds its amount to transfersUsingApprovals[token][d] exactly
\* when approvals[token][d] is recorded when the log is folded; otherwise,
\* and without a destination, no amount changes; approvals stay as they
\* were.
C16_OwnerInitiatedAttribution ==
  (IsTargetTransfer(fLog) /\ BatchHasTx
     /\ toLowerCase(BatchTx.from) = TARGET_ADDRESS) =>
    LET token == toLowerCase(fLog.address)
        d == toLowerCase(BatchTx.to)
    IN  /\ fState.approvals = fPrev.approvals
        /\ IF BatchTx.to # "none" /\ HasApproval(fPrev, token, d)
           THEN /\ AmountIn(fState, token, d)
                     = BigAdd(AmountIn(fPrev, token, d), fLog.amount)
                /\ AmountsKeptExcept(token, d)
           ELSE AmountsKept

\* a transfer sent by the target to 0xs1 attributed to the approval of
\* 0xs1, after a transfer of the token that was not attributed to 0xs1
C16_Witness ==
  /\ fSteps = 3
  /\ IsTargetTransfer(fLog)
  /\ BatchHasTx
  /\ toLowerCase(BatchTx.from) = TARGET_ADDRESS
  /\ toLowerCase(BatchTx.to) = "0xs1"
  /\ HasApproval(fPrev, "0xaa", "0xs1")
  /\ AmountIn(fPrev, "0xaa", "0xs1") = BigZero
  /\ AmountIn(fState, "0xaa", "0xs1") = Amount3
  /\ Get(fTotal, "0xaa") = BigFromNat(6)

\* is the log an Approval or a Transfer that is not the target's
IsForeignLog(log) ==
  /\ log.decoded
  /\ \/ log.topic0 = "Approval" /\ IndexedAddress(log.indexed0) # TARGET_ADDRESS
     \/ log.topic0 = "Transfer" /\ IndexedAddress(log.indexed0) # TARGET_ADDRESS

\* C17: folding an Approval whose owner is not the target, or a Transfer
\* whose from is not the target (also one to the target), leaves approvals
\* and transfersUsingApprovals as they were.
C17_ForeignLogsChangeNothing ==
  IsForeignLog(fLog) => fState = fPrev

\* a transfer to the target folded when an approval and a transferred amount
\* of the same token were held
C17_Witness ==
  /\ IsForeignLog(fLog)
  /\ fLog.topic0 = "Transfer"
  /\ IndexedAddress(fLog.indexed1) = TARGET_ADDRESS
  /\ BatchHasTx
  /\ HasApproval(fState, "0xaa", "0xs1")
  /\ AmountIn(fState, "0xaa", "0xs1") = Amount3

\* another Approval's owner is not the target and is folded when the target
\* approved the same spender
C17_WitnessApproval ==
  /\ IsForeignLog(fLog)
  /\ fLog.topic0 = "Approval"
  /\ HasApproval(fState, "0xaa", "0xs1")

HasTransferEntry(sc, token, who) ==
  /\ Has(sc.transfersUsingApprovals, token)
  /\ Has(Get(sc.transfersUsingApprovals, token), who)

\* C18: from one state of a scanChain to the next, every entry of
\* transfersUsingApprovals stays and its amount does not decrease.
C18_TransfersNeverDecrease ==
  [][\A i \in Indices : \A t \in FoldTokens : \A w \in FoldPeople :
       HasTransferEntry(scanner[i], t, w) =>
         /\ HasTransferEntry(scanner'[i], t, w)
         /\ ~BigGT(TransferredAmount(scanner[i].transfersUsingApprovals, t, w),
                   TransferredAmount(scanner'[i].transfersUsingApprovals, t, w))
    ]_vars

\* an entry that grew with the second batch
C18_Witness ==
  \E i \in Indices :
    /\ scanner[i].batches = 2
    /\ scanner[i].events = 2
    /\ TransferredAmount(scanner[i].transfersUsingApprovals, "0xaa", "0xs1")
         = BigFromNat(6)

RECURSIVE SumFrom(_, _)
\* the sum of the amounts of the entries k, k+1, ... of a map
SumFrom(m, k) ==
  IF k > Len(m) THEN BigZero ELSE BigAdd(m[k][2], SumFrom(m, k + 1))

AttributedTotal(st, token) ==
  IF Has(st.transfersUsingApprovals, token)
  THEN SumFrom(Get(st.transfersUsingApprovals, token), 1)
  ELSE BigZero

FoldedTotal(token) ==
  IF Has(fTotal, token) THEN Get(fTotal, token) ELSE BigZero

\* C19: for every token, the amounts of transfersUsingApprovals[token] sum
\* to at most the sum of the amounts of the Transfer logs with from = target
\* folded for the token.
C19_AttributedAtMostTransferred ==
  \A t \in FoldTokens :
    ~BigGT(AttributedTotal(fState, t), FoldedTotal(t))

\* three transfers of a token folded: one attributed to 0xs1, one to 0xs2,
\* one to nobody
C19_Witness ==
  /\ fSteps = 3
  /\ FoldedTotal("0xaa") = BigFromNat(9)
  /\ AmountIn(fState, "0xaa", "0xs1") = Amount3
  /\ AmountIn(fState, "0xaa", "0xs2") = Amount3
  /\ AttributedTotal(fState, "0xaa") = BigFromNat(6)

\* the records main computes from the maps of the log-by-log fold
FoldRecords ==
  {ChainRecords(1, fState)[k] : k \in 1..Len(ChainRecords(1, fState))}

\* C20: folding an Approval of the target changes approvals[token][spender]
\* only and leaves transfersUsingApprovals as it was: the record main
\* computes for the pair has the new approvedAmount and, as
\* transferredAmount, what was attributed to the spender before.
C20_ApprovalKeepsTransfers ==
  IsTargetApproval(fLog) =>
    LET token == toLowerCase(fLog.address)
        spender == IndexedAddress(fLog.indexed1)
    IN  /\ fState.transfersUsingApprovals = fPrev.transfersUsingApprovals
        /\ \A t \in FoldTokens : \A w \in FoldPeople :
             (t # token \/ w # spender) =>
               /\ HasApproval(fState, t, w) <=> HasApproval(fPrev, t, w)
               /\ HasApproval(fPrev, t, w) =>
                    Get(Get(fState.approvals, t), w)
                      = Get(Get(fPrev.approvals, t), w)
        /\ \E r \in FoldRecords :
             /\ r.tokenAddress = token
             /\ r.spender = spender
             /\ r.approvedAmount = fLog.amount
             /\ r.transferredAmount = AmountIn(fPrev, token, spender)

\* an approval of 5 folded for a spender who had transferred 3 under an
\* earlier approval: 2 remain
C20_Witness ==
  /\ fSteps = 3
  /\ IsTargetApproval(fLog)
  /\ HasApproval(fPrev, "0xaa", "0xs1")
  /\ AmountIn(fPrev, "0xaa", "0xs1") = Amount3
  /\ \E r \in FoldRecords :
       /\ r.tokenAddress = "0xaa"
       /\ r.spender = "0xs1"
       /\ r.approvedAmount = Amount5
       /\ r.transferredAmount = Amount3
       /\ r.remainingApproval = BigFromNat(2)

\* the progress displayScanProgress computes for a chain being scanned, as
\* the quotient num/den:
\* lastBlockSeen ? Math.max(0.01, lastBlockSeen / height) : 0
DisplayedProgress(stats) ==
  IF stats.lastBlockSeen = 0 THEN [num |-> 0, den |-> 1]
  ELSE IF stats.height # 0 /\ 100 * stats.lastBlockSeen < stats.height
  THEN [num |-> 1, den |-> 100]
  ELSE [num |-> stats.lastBlockSeen, den |-> stats.height]

\* 0 <= num/den <= 1; x/0 is Infinity or NaN
InUnitInterval(progress) ==
  /\ progress.den > 0
  /\ 0 <= progress.num
  /\ progress.num <= progress.den

\* C28: for every chain being scanned, the progress displayScanProgress
\* passes to drawProgressBar lies in [0, 1], and so the filled width is at
\* most the width of the bar.
C28_ProgressIsAFraction ==
  \A c \in DOMAIN chainStats :
    chainStats[c].isScanning =>
      /\ InUnitInterval(DisplayedProgress(chainStats[c]))
      /\ ~DisplayChain(chainStats[c]).threw

\* the selected record exists and is on the page on display
SelectionOnPage ==
  /\ 0 <= selectedApprovalIndex
  /\ selectedApprovalIndex < Len(approvalsList)
  /\ currentPage * PAGE_SIZE <= selectedApprovalIndex
  /\ selectedApprovalIndex < (currentPage + 1) * PAGE_SIZE

\* C30: at the prompt, after any sequence of the commands n, p, > and <,
\* the selected index is an index of approvalsList and lies on the current
\* page; the command n with the last record selected and the command p with
\* the first record selected leave the selection and the page as they are.
C30_SelectionStaysOnPage ==
  /\ [](uiPc # "off" => SelectionOnPage)
  /\ [][/\ (SelectNext /\ selectedApprovalIndex = Len(approvalsList) - 1)
             => UNCHANGED << selectedApprovalIndex, currentPage >>
        /\ (SelectPrevious /\ selectedApprovalIndex = 0)
             => UNCHANGED << selectedApprovalIndex, currentPage >>
       ]_vars

\* the last record of a list of three pages, reached with n from the page
\* before
C30_Witness ==
  /\ uiPc = "prompt"
  /\ Len(approvalsList) = 17
  /\ selectedApprovalIndex = 16
  /\ currentPage = 2

\* C29: with no command typed, the background fetching comes to rest: from
\* some point on no call of fetchTokenMetadataInBackground is in flight, and
\* so no further redraw follows.
C29_BackgroundFetchSettles == <>[](uiPc = "prompt" /\ background = << >>)

\* the two maps of scanner i
MapsOf(i) ==
  [approvals |-> scanner[i].approvals,
   transfersUsingApprovals |-> scanner[i].transfersUsingApprovals]

\* chainStats[chainId] exists and the chain is requested once
ListedOnce(i) ==
  /\ CHAIN_IDS[i] \in DOMAIN chainStats
  /\ \A j \in Indices : CHAIN_IDS[j] = CHAIN_IDS[i] => j = i

\* a log scanChain's loop does not skip
IsUsableEvent(event) ==
  /\ event.log.decoded
  /\ event.log.topic0 # "none"
  /\ event.log.address # "none"

RECURSIVE FoldItems(_, _, _)
\* the batches k, k+1, ... of a feed folded one after the other, the logs
\* scanChain's loop skips left out, and with them the batches that are not
\* decoded
FoldItems(st, items, k) ==
  IF k > Len(items) THEN st
  ELSE FoldItems(IF items[k].kind = "batch"
                 THEN FoldBatch(st, MakeBatch(SelectSeq(items[k].events,
                                                        IsUsableEvent),
                                              items[k].nextBlock))
                 ELSE st,
                 items, k + 1)

RECURSIVE RawLogs(_, _)
\* res.data.logs.length summed over the batches k, k+1, ...
RawLogs(items, k) ==
  IF k > Len(items) THEN 0 ELSE Len(items[k].events) + RawLogs(items, k + 1)

RECURSIVE RawLogsOfChain(_, _)
\* the same for all the scanners of a chain from index j on
RawLogsOfChain(chainId, j) ==
  IF j > Len(CHAIN_IDS) THEN 0
  ELSE (IF CHAIN_IDS[j] = chainId THEN RawLogs(ReceivedItems(j), 1) ELSE 0)
       + RawLogsOfChain(chainId, j + 1)

\* C24: a log that is not decoded, has no topic or whose handling throws is
\* not folded and does not keep the other logs of its batch from being
\* folded (the maps are those of the fold without it), and totalEvents is
\* the number of raw logs of all the batches received.
C24_BadLogsSkippedButCounted ==
  \A i \in Indices :
    CHAIN_IDS[i] \in DOMAIN chainStats =>
      /\ MapsOf(i) = FoldItems(EmptyFold, ReceivedItems(i), 1)
      /\ chainStats[CHAIN_IDS[i]].totalEvents
           = RawLogsOfChain(CHAIN_IDS[i], 1)

\* a batch of three logs, two of them skipped, has been received: the
\* approval between them is folded and the three are counted
C24_Witness ==
  \E i \in Indices :
    /\ ListedOnce(i)
    /\ feedPos[i] = 1
    /\ Len(feed[i].items) >= 1
    /\ feed[i].items[1] = MixedBatch
    /\ HasApproval(MapsOf(i), "0xaa", "0xs1")
    /\ Get(Get(scanner[i].approvals, "0xaa"), "0xs1").amount = Amount5
    /\ chainStats[CHAIN_IDS[i]].totalEvents = 3

RECURSIVE LastNextBlock(_, _)
\* the nextBlock of the last batch among the first k that was processed
\* without an exception and carried one; 0 without such a batch
LastNextBlock(items, k) ==
  IF k = 0 THEN 0
  ELSE IF items[k].kind = "batch" /\ items[k].nextBlock # 0
  THEN items[k].nextBlock
  ELSE LastNextBlock(items, k - 1)

\* C23: an exception in the processing of a batch does not reject the scan,
\* keeps what was folded, and leaves lastBlockSeen and query.fromBlock at
\* the nextBlock of the last batch processed without an exception.
C23_BatchExceptionKeepsCursor ==
  \A i \in Indices :
    (pc # "init" /\ ListedOnce(i)) =>
      LET received == ReceivedItems(i)
          cursor == LastNextBlock(received, Len(received))
      IN  /\ scanner[i].rejected => ~feed[i].opens
          /\ MapsOf(i) = FoldItems(EmptyFold, received, 1)
          /\ scanner[i].fromBlock = cursor
          /\ chainStats[CHAIN_IDS[i]].lastBlockSeen = cursor

\* the fields of a chainStats entry the scan writes
ScanStats(stats) ==
  << stats.height, stats.lastBlockSeen, stats.totalEvents, stats.startTime,
     stats.endTime, stats.isScanning, stats.isComplete >>

\* C25: once isComplete is set for a chain, height, lastBlockSeen,
\* totalEvents, startTime, endTime, isScanning and isComplete of its entry
\* keep their values.
C25_CompleteStatsAreFrozen ==
  [][\A c \in DOMAIN chainStats :
       chainStats[c].isComplete =>
         ScanStats(chainStats'[c]) = ScanStats(chainStats[c])
    ]_vars

\* pending 0, scanning 1, complete 2; 3 for both flags set
FlagRank(stats) ==
  CASE stats.isScanning /\ stats.isComplete -> 3
    [] stats.isScanning -> 1
    [] stats.isComplete -> 2
    [] OTHER -> 0

\* C26: the flags of a chain are never both set, an entry is created
\* pending, and from one state to the next a chain stays where it is or
\* moves forward: pending, scanning, complete.
C26_FlagsMoveForward ==
  /\ [](\A c \in DOMAIN chainStats : FlagRank(chainStats[c]) # 3)
  /\ [][\A c \in DOMAIN chainStats' :
          IF c \in DOMAIN chainStats
          THEN FlagRank(chainStats'[c]) >= FlagRank(chainStats[c])
          ELSE FlagRank(chainStats'[c]) = 0
       ]_vars

\* one chain complete while another is being scanned
C26_Witness ==
  \E c, d \in DOMAIN chainStats :
    /\ FlagRank(chainStats[c]) = 2
    /\ FlagRank(chainStats[d]) = 1

\* the process is past the scan
ScanOver == pc \in {"interactive", "exited"}

\* what a scanChain whose stream ends returns for its feed
FeedResult(i) ==
  IF feed[i].opens THEN FoldItems(EmptyFold, feed[i].items, 1) ELSE EmptyFold

\* C27: with every stream ending, the list the process ends with is the
\* sorted list of the records of the folds of the feeds, whatever the order
\* in which the scanners received and completed.
C27_ListIndependentOfInterleaving ==
  (ScanOver /\ \A i \in Indices : feed[i].tail = "null") =>
    approvalsList
      = BuildApprovalsList(CHAIN_IDS, [i \in Indices |-> FeedResult(i)])

\* the scanners of a list of one or two chains
ScanSlots == {1, 2}

\* scanChain i is past its receive loop
LoopEnded(i) == scanner[i].pc \in {"returned", "threw", "settled"}

\* scanChain i has left its loop on null and returned
HasReturned(i) == i \in Indices /\ scanner[i].pc = "returned"

\* the chain of scanner i is marked complete and no longer scanning
IsComplete(i) ==
  /\ i \in Indices
  /\ CHAIN_IDS[i] \in DOMAIN chainStats
  /\ ~chainStats[CHAIN_IDS[i]].isScanning
  /\ chainStats[CHAIN_IDS[i]].isComplete

\* C21: when stream.recv() has resolved to null, endTime is set and every
\* item of the feed was received before; a scanChain past its loop
\* receives and folds nothing more; and a chain whose scanChain has
\* returned gets isScanning = false and isComplete = true.
C21_NullEndsTheScan ==
  /\ [](\A i \in Indices :
          scanner[i].pc = "returned" =>
            /\ chainStats[CHAIN_IDS[i]].endTime = 1
            /\ feedPos[i] = Len(feed[i].items))
  /\ [][\A i \in Indices :
          LoopEnded(i) =>
            /\ scanner'[i].pc \in {"returned", "threw", "settled"}
            /\ scanner'[i].approvals = scanner[i].approvals
            /\ scanner'[i].transfersUsingApprovals
                 = scanner[i].transfersUsingApprovals
            /\ feedPos'[i] = feedPos[i]
       ]_vars
  /\ \A i \in ScanSlots : HasReturned(i) ~> IsComplete(i)

\* a chain complete after its stream gave two batches and then null
C21_Witness ==
  \E i \in Indices :
    /\ ListedOnce(i)
    /\ scanner[i].pc = "settled"
    /\ scanner[i].result = "own"
    /\ feedPos[i] = 2
    /\ chainStats[CHAIN_IDS[i]].endTime = 1
    /\ chainStats[CHAIN_IDS[i]].isComplete
    /\ ~chainStats[CHAIN_IDS[i]].isScanning

\* C22: the scan comes to an end: main gets past Promise.all, or the
\* process exits.
C22_ScanEnds == <>ScanOver

====
